---- MODULE Spec2Model ----
(***************************************************************************)
(* A model of ds-identify (Rust port): fact collection, policy resolution, *)
(* datasource list resolution and the decision taken by _main.             *)
(*                                                                         *)
(* Rust strings are TLA+ strings; a character is a string of length one.   *)
(* Option<T> is a sequence of length at most one: None is << >> and        *)
(* Some(x) is <<x>>.                                                       *)
(***************************************************************************)
EXTENDS Naturals, Sequences, FiniteSets, TLC

VARIABLES
    pc,         \* position of the process: "main", "collect", "mode", ...
    env,        \* the host the process runs on (arguments, environment, files)
    fs,         \* the files the process may write: run_ci_cfg, run_di_result
    info,       \* Option<Info>: the snapshot returned by Info::collect_info
    exit_code,  \* Option<int>: the exit status once the process has ended
    probes,     \* the datasource checks dispatched so far, in order
    found,      \* the datasources accumulated as Found / Maybe by the dispatch
    fin,        \* input of the function under study (function harnesses)
    fout        \* its result, << >> until it has been applied

vars == <<pc, env, fs, info, exit_code, probes, found, fin, fout>>

None == << >>
Some(x) == <<x>>
IsSome(o) == o # << >>
Unwrap(o) == o[1]

\* the sequences over S of length at most n
SeqUpTo(S, n) == UNION {[1..k -> S] : k \in 0..n}

(***************************************************************************)
(* Bounds of the model.                                                    *)
(***************************************************************************)
\* number of comma-separated tokens in a generated policy string
MaxPolicyToks == 2
\* number of names in a generated DI_DSNAME / datasource list
MaxNames == 2
\* number of tokens in a generated kernel command line
MaxCmdToks == 3
\* number of characters in a generated string
MaxStrLen == 3

(***************************************************************************)
(* std::str                                                                *)
(***************************************************************************)
Ch(s, i) == SubSeq(s, i, i)

\* char::is_whitespace, restricted to the ASCII whitespace used here
IsWs(c) == c \in {" ", "\t", "\n", "\r"}

RECURSIVE FindFrom(_, _, _)
\* index of the first occurrence of character c in s at or after i, 0 if none
FindFrom(s, c, i) ==
    IF i > Len(s) THEN 0
    ELSE IF Ch(s, i) = c THEN i ELSE FindFrom(s, c, i + 1)

\* str::split_once(char)
split_once(s, c) ==
    LET i == FindFrom(s, c, 1) IN
    IF i = 0 THEN None
    ELSE Some(<<SubSeq(s, 1, i - 1), SubSeq(s, i + 1, Len(s))>>)

RECURSIVE split(_, _)
\* str::split(char): always at least one piece, empty pieces kept
split(s, c) ==
    LET i == FindFrom(s, c, 1) IN
    IF i = 0 THEN <<s>>
    ELSE <<SubSeq(s, 1, i - 1)>> \o split(SubSeq(s, i + 1, Len(s)), c)

RECURSIVE trim_start(_)
trim_start(s) ==
    IF Len(s) > 0 /\ IsWs(Ch(s, 1)) THEN trim_start(SubSeq(s, 2, Len(s))) ELSE s

RECURSIVE trim_end(_)
trim_end(s) ==
    IF Len(s) > 0 /\ IsWs(Ch(s, Len(s))) THEN trim_end(SubSeq(s, 1, Len(s) - 1)) ELSE s

\* str::trim
trim(s) == trim_end(trim_start(s))

RECURSIVE WordEnd(_, _)
\* index of the last character of the whitespace-free run starting at i
WordEnd(s, i) ==
    IF i < Len(s) /\ ~IsWs(Ch(s, i + 1)) THEN WordEnd(s, i + 1) ELSE i

RECURSIVE split_whitespace(_)
\* str::split_whitespace: the non-empty whitespace-free runs, in order
split_whitespace(s) ==
    LET t == trim_start(s) IN
    IF Len(t) = 0 THEN << >>
    ELSE LET e == WordEnd(t, 1) IN
         <<SubSeq(t, 1, e)>> \o split_whitespace(SubSeq(t, e + 1, Len(t)))

starts_with(s, p) == Len(p) <= Len(s) /\ SubSeq(s, 1, Len(p)) = p
ends_with(s, p) == Len(p) <= Len(s) /\ SubSeq(s, Len(s) - Len(p) + 1, Len(s)) = p

\* str::strip_prefix / strip_suffix: Option<&str>
strip_prefix(s, p) == IF starts_with(s, p) THEN Some(SubSeq(s, Len(p) + 1, Len(s))) ELSE None
strip_suffix(s, p) == IF ends_with(s, p) THEN Some(SubSeq(s, 1, Len(s) - Len(p))) ELSE None

\* str::contains(&str)
contains(s, p) == \E i \in 1..(Len(s) + 1) : starts_with(SubSeq(s, i, Len(s)), p)

UpperChars == "ABCDEFGHIJKLMNOPQRSTUVWXYZ"
LowerChars == "abcdefghijklmnopqrstuvwxyz"

LowerCh(c) ==
    LET i == FindFrom(UpperChars, c, 1) IN
    IF i = 0 THEN c ELSE Ch(LowerChars, i)

RECURSIVE to_lowercase(_)
\* str::to_lowercase (ASCII letters)
to_lowercase(s) ==
    IF Len(s) = 0 THEN "" ELSE LowerCh(Ch(s, 1)) \o to_lowercase(SubSeq(s, 2, Len(s)))

RECURSIVE lines(_)
\* str::lines: split at "\n", a final empty piece is dropped
lines(s) ==
    IF Len(s) = 0 THEN << >>
    ELSE LET i == FindFrom(s, "\n", 1) IN
         IF i = 0 THEN <<s>>
         ELSE <<SubSeq(s, 1, i - 1)>> \o lines(SubSeq(s, i + 1, Len(s)))

RECURSIVE join(_, _)
\* [&str]::join(sep)
join(ss, sep) ==
    IF Len(ss) = 0 THEN ""
    ELSE IF Len(ss) = 1 THEN ss[1]
    ELSE ss[1] \o sep \o join(Tail(ss), sep)

\* the result of a panicking call (unwrap on None/Err, panic!, todo!)
Panic == "<panic>"

(***************************************************************************)
(* util.rs                                                                 *)
(***************************************************************************)
QUOTE == "\""
TICK == "'"

\* strip_prefix(q).unwrap().strip_suffix(q).unwrap()
StripPair(val, q) ==
    LET p == strip_prefix(val, q) IN
    IF ~IsSome(p) THEN Panic
    ELSE LET r == strip_suffix(Unwrap(p), q) IN
         IF ~IsSome(r) THEN Panic ELSE Unwrap(r)

\* Remove quotes from quoted value.
unquote(val) ==
    IF starts_with(val, TICK) /\ ends_with(val, TICK) THEN StripPair(val, TICK)
    ELSE IF starts_with(val, QUOTE) /\ ends_with(val, QUOTE) THEN StripPair(val, QUOTE)
    ELSE val

\* parse a yaml single line array value
parse_yaml_array(val) ==
    LET v1 == IF IsSome(strip_prefix(val, "[")) THEN Unwrap(strip_prefix(val, "[")) ELSE val
        v2 == IF IsSome(strip_prefix(v1, "]")) THEN Unwrap(strip_prefix(v1, "]")) ELSE v1
        toks == split(v2, ",")
    IN  [i \in 1..Len(toks) |-> unquote(trim(toks[i]))]

\* ensure_sane_path on a process whose $PATH is PATH (None: not set):
\* [panic, path, PATH], path the local String at the end of the function and
\* PATH the variable of the process, which the function reads and never sets
ensure_sane_path(PATH) ==
    LET push(path, p) ==
            IF contains(path, ":" \o p \o ":") \/ contains(path, ":" \o p \o ":/")
            THEN path
            ELSE path \o ":" \o p
    IN  IF ~IsSome(PATH) THEN [panic |-> TRUE, path |-> "", PATH |-> PATH]
        ELSE [panic |-> FALSE,
              path |-> push(push(push(push(Unwrap(PATH), "/sbin"), "/usr/sbin"), "/bin"),
                            "/usr/bin"),
              PATH |-> PATH]

(***************************************************************************)
(* constants.rs                                                            *)
(***************************************************************************)
UNAVAILABLE == "unavailable"
DI_ENABLED == "enabled"
DI_DISABLED == "disabled"
DI_DSLIST_DEFAULT ==
    "MAAS ConfigDrive NoCloud AltCloud Azure Bigstep " \o
    "CloudSigma CloudStack DigitalOcean Vultr AliYun Ec2 GCE OpenNebula OpenStack " \o
    "OVF SmartOS Scaleway Hetzner IBMCloud Oracle Exoscale RbxCloud UpCloud VMware " \o
    "LXD NWCS"

(***************************************************************************)
(* info/config.rs: Policy                                                  *)
(***************************************************************************)
\* impl Default for Policy, with Found::default, Maybe::default, NotFound::default
Policy_default ==
    [mode |-> "Search", on_found |-> "All", on_maybe |-> "All", on_notfound |-> "Disabled"]

Policy_default_no_dmi ==
    [mode |-> "Search", on_found |-> "All", on_maybe |-> "All", on_notfound |-> "Enabled"]

\* a mutant: the DMI test the wrong way round
Policy_parse_from_uname_swapped(machine) ==
    IF machine \in {"i686", "i386", "x86_64"} THEN Policy_default_no_dmi ELSE Policy_default

Policy_parse_from_uname(machine) ==
    IF machine \in {"i686", "i386", "x86_64"} THEN Policy_default ELSE Policy_default_no_dmi

\* one iteration of the token loop of parse_from_str; acc holds the four
\* Option locals mode, found, maybe, notfound
PolicyTok(acc, tok) ==
    LET kv == split_once(tok, "=") IN
    IF IsSome(kv) THEN
        LET k == Unwrap(kv)[1]
            val == Unwrap(kv)[2]
        IN  IF k = "found" THEN
                IF val = "all" THEN [acc EXCEPT !.found = Some("All")]
                ELSE IF val = "first" THEN [acc EXCEPT !.found = Some("First")]
                ELSE acc   \* parse_warn
            ELSE IF k = "maybe" THEN
                IF val = "all" THEN [acc EXCEPT !.maybe = Some("All")]
                ELSE IF val = "none" THEN [acc EXCEPT !.maybe = Some("None")]
                ELSE acc   \* parse_warn
            ELSE IF k = "notfound" THEN
                IF val = DI_DISABLED THEN [acc EXCEPT !.notfound = Some("Disabled")]
                ELSE IF val = DI_ENABLED THEN [acc EXCEPT !.notfound = Some("Enabled")]
                ELSE acc   \* parse_warn
            ELSE acc       \* backward compat
    ELSE
        IF tok = DI_ENABLED THEN [acc EXCEPT !.mode = Some("Enabled")]
        ELSE IF tok = DI_DISABLED THEN [acc EXCEPT !.mode = Some("Disabled")]
        ELSE IF tok = "search" THEN [acc EXCEPT !.mode = Some("Search")]
        ELSE IF tok = "report" THEN [acc EXCEPT !.mode = Some("Report")]
        ELSE acc           \* backward compat

RECURSIVE PolicyToks(_, _)
PolicyToks(acc, toks) ==
    IF Len(toks) = 0 THEN acc ELSE PolicyToks(PolicyTok(acc, Head(toks)), Tail(toks))

Policy_parse_from_str(policy_str, machine) ==
    LET policy == Policy_parse_from_uname(machine)
        acc == PolicyToks([mode |-> None, found |-> None, maybe |-> None, notfound |-> None],
                          split(trim(policy_str), ","))
    IN  [mode        |-> IF IsSome(acc.mode) THEN Unwrap(acc.mode) ELSE policy.mode,
         on_found    |-> IF IsSome(acc.found) THEN Unwrap(acc.found) ELSE policy.on_found,
         on_maybe    |-> IF IsSome(acc.maybe) THEN Unwrap(acc.maybe) ELSE policy.on_maybe,
         on_notfound |-> IF IsSome(acc.notfound) THEN Unwrap(acc.notfound)
                         ELSE policy.on_notfound]

(***************************************************************************)
(* info/config.rs: Config                                                  *)
(*                                                                         *)
(* A path of the host is a record [kind, content]: kind is "absent",       *)
(* "file" or "dir"; content is the text of a file.                         *)
(***************************************************************************)
Absent == [kind |-> "absent", content |-> ""]
File(text) == [kind |-> "file", content |-> text]
Dir == [kind |-> "dir", content |-> ""]

is_file(p) == p.kind = "file"
is_dir(p) == p.kind = "dir"
exists(p) == p.kind # "absent"

\* one iteration of the line loop of from_file; acc is [dsname, policy, panic]
ConfigLine(acc, line) ==
    LET kv == split_once(line, ":") IN
    IF ~IsSome(kv) THEN acc   \* no `:` in the line.
    ELSE LET key == trim(Unwrap(kv)[1])
             val == unquote(trim(Unwrap(kv)[2]))
         IN  IF val = Panic THEN [acc EXCEPT !.panic = TRUE]
             ELSE IF key = "datasource" THEN [acc EXCEPT !.dsname = Some(val)]
             ELSE IF key = "policy" THEN [acc EXCEPT !.policy = Some(val)]
             ELSE acc

RECURSIVE ConfigLines(_, _)
ConfigLines(acc, ls) ==
    IF Len(ls) = 0 \/ acc.panic THEN acc ELSE ConfigLines(ConfigLine(acc, Head(ls)), Tail(ls))

\* (Option<dsname>, Option<policy>), or a panic
Config_from_file(path) ==
    IF ~is_file(path) THEN [dsname |-> None, policy |-> None, panic |-> TRUE]
    ELSE ConfigLines([dsname |-> None, policy |-> None, panic |-> FALSE], lines(path.content))

\* one iteration of the kernel command line loop of Config::read
CmdlineTok(acc, tok) ==
    LET kv == split_once(tok, "=") IN
    IF ~IsSome(kv) THEN acc
    ELSE LET key == Unwrap(kv)[1]
             val == Unwrap(kv)[2]
         IN  IF key \in {"ci.ds", "ci.datasource"} THEN [acc EXCEPT !.dsname = Some(val)]
             ELSE IF key = "ci.di.policy" THEN [acc EXCEPT !.policy = Some(val)]
             ELSE acc

RECURSIVE CmdlineToks(_, _)
CmdlineToks(acc, toks) ==
    IF Len(toks) = 0 THEN acc ELSE CmdlineToks(CmdlineTok(acc, Head(toks)), Tail(toks))

\* Config::read: [panic, dsname, mode, on_found, on_maybe, on_notfound]
Config_read(di_config, kernel_cmdline, machine) ==
    LET file == IF exists(di_config) THEN Config_from_file(di_config)
                ELSE [dsname |-> None, policy |-> None, panic |-> FALSE]
        acc == CmdlineToks(file, split(kernel_cmdline, " "))
        policy == IF IsSome(acc.policy) THEN Policy_parse_from_str(Unwrap(acc.policy), machine)
                  ELSE Policy_parse_from_uname(machine)
    IN  [panic |-> file.panic, dsname |-> acc.dsname, mode |-> policy.mode,
         on_found |-> policy.on_found, on_maybe |-> policy.on_maybe,
         on_notfound |-> policy.on_notfound]

(***************************************************************************)
(* dss.rs: Datasource                                                      *)
(*                                                                         *)
(* A Datasource is [tag, name]: tag is the enum variant, name the payload  *)
(* of Unknown (empty for the other variants).                              *)
(***************************************************************************)
DsNone == [tag |-> "None", name |-> ""]
DsNoCloud == [tag |-> "NoCloud", name |-> ""]
DsLXD == [tag |-> "LXD", name |-> ""]
DsUnknown(n) == [tag |-> "Unknown", name |-> n]

\* impl From<&str> for Datasource
Datasource_from(val) ==
    LET l == to_lowercase(val) IN
    IF l = "nocloud" THEN DsNoCloud
    ELSE IF l = "lxd" THEN DsLXD
    ELSE DsUnknown(val)

\* impl From<&Datasource> for String
String_from(ds) ==
    IF ds.tag = "NoCloud" THEN "NoCloud"
    ELSE IF ds.tag = "None" THEN "None"
    ELSE IF ds.tag = "LXD" THEN "LXD"
    ELSE "Unknown(" \o ds.name \o ")"

(***************************************************************************)
(* paths.rs                                                                *)
(*                                                                         *)
(* A directory of the host is [kind, entries]; an entry is                 *)
(* [name, kind, content], in the order read_dir returns them.              *)
(***************************************************************************)
NoDir == [kind |-> "absent", entries |-> << >>]
DirOf(es) == [kind |-> "dir", entries |-> es]
Entry(n, text) == [name |-> n, kind |-> "file", content |-> text]

RECURSIVE CfgEntries(_)
\* the entries kept by the loop of etc_ci_cfg_paths: Path::ends_with(".cfg")
\* compares whole path components, so it holds of an entry named `.cfg` only
CfgEntries(es) ==
    IF Len(es) = 0 THEN << >>
    ELSE IF Head(es).name = ".cfg" THEN <<Head(es)>> \o CfgEntries(Tail(es))
    ELSE CfgEntries(Tail(es))

\* Paths::etc_ci_cfg_paths: [panic, paths], the files to scan; it panics
\* where read_dir().unwrap() fails
etc_ci_cfg_paths(etc_ci_cfg, etc_ci_cfg_d) ==
    IF is_dir(etc_ci_cfg) THEN
        IF etc_ci_cfg_d.kind # "dir" THEN [panic |-> TRUE, paths |-> << >>]
        ELSE [panic |-> FALSE, paths |-> <<etc_ci_cfg>> \o CfgEntries(etc_ci_cfg_d.entries)]
    ELSE [panic |-> FALSE, paths |-> <<etc_ci_cfg>>]

(***************************************************************************)
(* sources/list.rs: DatasourceList                                         *)
(***************************************************************************)
\* one iteration of the line loop of check_config
CheckLine(key, acc, line0) ==
    LET c == split_once(line0, "#")
        line == trim(IF IsSome(c) THEN Unwrap(c)[1] ELSE line0)
        kv == split_once(line, ":")
    IN  IF IsSome(kv) /\ key = trim(Unwrap(kv)[1]) THEN Some(trim(Unwrap(kv)[2])) ELSE acc

RECURSIVE CheckLines(_, _, _)
CheckLines(key, acc, ls) ==
    IF Len(ls) = 0 THEN acc ELSE CheckLines(key, CheckLine(key, acc, Head(ls)), Tail(ls))

RECURSIVE check_config_from(_, _, _)
check_config_from(key, acc, paths) ==
    IF Len(paths) = 0 THEN acc
    ELSE IF ~is_file(Head(paths)) THEN check_config_from(key, acc, Tail(paths))
    ELSE check_config_from(key, CheckLines(key, acc, lines(Head(paths).content)), Tail(paths))

\* somewhat hackily read through paths for `key`: Option<value>
check_config(key, paths) == check_config_from(key, None, paths)

\* impl From<&str> for DatasourceList
DatasourceList_from(value) ==
    LET toks == split_whitespace(value) IN [i \in 1..Len(toks) |-> Datasource_from(toks[i])]

\* impl Default for DatasourceList
DatasourceList_default ==
    LET toks == split(DI_DSLIST_DEFAULT, " ") IN [i \in 1..Len(toks) |-> Datasource_from(toks[i])]

\* a mutant: the config files win over DI_DSNAME
DatasourceList_read_cfg_first(DI_DSNAME, etc_ci_cfg, etc_ci_cfg_d) ==
    LET cfg_paths == etc_ci_cfg_paths(etc_ci_cfg, etc_ci_cfg_d) IN
    IF cfg_paths.panic THEN [panic |-> TRUE, list |-> << >>, cfg_read |-> TRUE]
    ELSE LET f == check_config("datasource_list", cfg_paths.paths) IN
         IF IsSome(f) THEN
             LET dslist == parse_yaml_array(Unwrap(f)) IN
             [panic |-> \E i \in 1..Len(dslist) : dslist[i] = Panic,
              list |-> [i \in 1..Len(dslist) |-> Datasource_from(dslist[i])],
              cfg_read |-> TRUE]
         ELSE IF IsSome(DI_DSNAME) THEN
             [panic |-> FALSE, list |-> DatasourceList_from(Unwrap(DI_DSNAME)),
              cfg_read |-> TRUE]
         ELSE [panic |-> FALSE, list |-> DatasourceList_default, cfg_read |-> TRUE]

\* DatasourceList::read: [panic, list, cfg_read]; cfg_read tells whether
\* etc_ci_cfg_paths and check_config were called
DatasourceList_read(DI_DSNAME, etc_ci_cfg, etc_ci_cfg_d) ==
    IF IsSome(DI_DSNAME) THEN
        [panic |-> FALSE, list |-> DatasourceList_from(Unwrap(DI_DSNAME)), cfg_read |-> FALSE]
    ELSE
        LET cfg_paths == etc_ci_cfg_paths(etc_ci_cfg, etc_ci_cfg_d) IN
        IF cfg_paths.panic THEN [panic |-> TRUE, list |-> << >>, cfg_read |-> TRUE]
        ELSE LET f == check_config("datasource_list", cfg_paths.paths) IN
             IF IsSome(f) THEN
                 LET dslist == parse_yaml_array(Unwrap(f)) IN
                 [panic |-> \E i \in 1..Len(dslist) : dslist[i] = Panic,
                  list |-> [i \in 1..Len(dslist) |-> Datasource_from(dslist[i])],
                  cfg_read |-> TRUE]
             ELSE [panic |-> FALSE, list |-> DatasourceList_default, cfg_read |-> TRUE]

\* determines if there is only a single non-none ds entry or not
only_one_not_none(list) ==
    \/ Len(list) = 1
    \/ Len(list) = 2 /\ list[Len(list)] = DsNone

to_old_str(list) == join([i \in 1..Len(list) |-> String_from(list[i])], " ")

as_old_list(list) == [i \in 1..Len(list) |-> String_from(list[i])]

\* a mutant: the last element is kept
keep_last(list) == IF Len(list) <= 1 THEN list ELSE <<list[Len(list)]>>

\* DatasourceList::keep_first: Vec::truncate(1)
keep_first(list) == IF Len(list) <= 1 THEN list ELSE SubSeq(list, 1, 1)

(***************************************************************************)
(* info/uname.rs                                                           *)
(***************************************************************************)
\* UnameInfo::read on the output of `uname -snrvmo` (None: the command could
\* not be run): [panic, kernel_name, ..., operating_system]
UnameInfo_read(uname_out) ==
    LET w == IF IsSome(uname_out) THEN split(Unwrap(uname_out), " ") ELSE << >>
        n == Len(w)
    IN  IF n < 5 THEN
            [panic |-> TRUE, kernel_name |-> "", node_name |-> "", kernel_release |-> "",
             kernel_version |-> "", machine |-> "", operating_system |-> ""]
        ELSE
            [panic |-> FALSE, kernel_name |-> w[1], node_name |-> w[2],
             kernel_release |-> w[3], kernel_version |-> join(SubSeq(w, 4, n - 2), " "),
             machine |-> w[n - 1], operating_system |-> w[n]]

(***************************************************************************)
(* info.rs: Virt                                                           *)
(*                                                                         *)
(* A command of the host is None when it cannot be started, else           *)
(* Some([ok, stdout, stderr]).                                             *)
(***************************************************************************)
Ran(ok, out, err) == Some([ok |-> ok, stdout |-> out, stderr |-> err])

\* Virt::from
Virt_from(kernel_name, h) ==
    IF h.is_systemd THEN
        IF ~IsSome(h.systemd_detect_virt) THEN UNAVAILABLE
        ELSE LET o == Unwrap(h.systemd_detect_virt) IN
             IF o.ok THEN trim_end(o.stdout)
             ELSE IF o.stdout = "none" \/ o.stderr = "none" THEN "none"
             ELSE UNAVAILABLE
    ELSE IF kernel_name = "FreeBSD" THEN
        LET v1 == IF ~IsSome(h.sysctl_vm_guest) THEN UNAVAILABLE
                  ELSE LET out == Unwrap(h.sysctl_vm_guest).stdout IN
                       IF out = "hv" THEN "microsoft"
                       ELSE IF out = "vbox" THEN "oracle"
                       ELSE IF out = "generic" THEN "vm-other"
                       ELSE out
        IN  IF IsSome(h.sysctl_jailed) /\ Unwrap(h.sysctl_jailed).stdout = "1" THEN "jail"
            ELSE v1
    ELSE UNAVAILABLE

\* a mutant: two of the container kinds are forgotten
is_container_short(virt) ==
    to_lowercase(virt) \in {"container-other", "lxc", "lxc-libvirt", "systemd-nspawn",
                            "docker"}

\* Virt::is_container
is_container(virt) ==
    to_lowercase(virt) \in {"container-other", "lxc", "lxc-libvirt", "systemd-nspawn",
                            "docker", "rkt", "jail"}

(***************************************************************************)
(* info.rs: Info                                                           *)
(***************************************************************************)
\* stands for the NUL byte that ends the entries of /proc/1/environ and
\* /proc/1/cmdline
NUL == "\f"

RECURSIVE replace(_, _, _)
\* str::replace(char, &str)
replace(s, c, r) ==
    IF Len(s) = 0 THEN ""
    ELSE (IF Ch(s, 1) = c THEN r ELSE Ch(s, 1)) \o replace(SubSeq(s, 2, Len(s)), c, r)

RECURSIVE split_terminated(_, _)
\* BufRead::split(byte): the pieces ended by the byte, a final empty piece is
\* not returned
split_terminated(s, c) ==
    IF Len(s) = 0 THEN << >>
    ELSE LET i == FindFrom(s, c, 1) IN
         IF i = 0 THEN <<s>>
         ELSE <<SubSeq(s, 1, i - 1)>> \o split_terminated(SubSeq(s, i + 1, Len(s)), c)

RECURSIVE Pid1Entries(_)
\* the entry loop of read_pid1_product_name
Pid1Entries(es) ==
    IF Len(es) = 0 THEN UNAVAILABLE
    ELSE LET kv == split_once(Head(es), "=") IN
         IF ~IsSome(kv) THEN Panic
         ELSE IF to_lowercase(Unwrap(kv)[1]) = "product_name" THEN Unwrap(kv)[2]
         ELSE Pid1Entries(Tail(es))

\* Info::read_pid1_product_name: the name, or Panic
read_pid1_product_name(proc_1_environ) ==
    IF ~is_file(proc_1_environ) THEN Panic
    ELSE Pid1Entries(split_terminated(proc_1_environ.content, NUL))

\* Info::read_kernel_cmdline: the command line, or Panic
read_kernel_cmdline(proc_cmdline, proc_1_cmdline, container) ==
    IF container THEN
        IF ~is_file(proc_1_cmdline) THEN Panic
        ELSE LET cmdline == replace(proc_1_cmdline.content, NUL, " ") IN
             IF Len(cmdline) = 0 THEN cmdline
             ELSE UNAVAILABLE \o ":container"
    ELSE IF is_file(proc_cmdline) THEN proc_cmdline.content
    ELSE UNAVAILABLE \o ":no-cmdline"

(***************************************************************************)
(* smbios.rs                                                               *)
(*                                                                         *)
(* The directory sys_class_dmi_id is [kind, files]; files maps a file name *)
(* to "missing", "denied", "ioerror" or Some(content).  dmidecode is None  *)
(* when it cannot be started, else the function from a dmidecode string    *)
(* keyword to its output.                                                  *)
(***************************************************************************)
DmiKeys == <<"sys_vendor", "product_name", "product_uuid", "product_serial",
             "chassis_asset_tag", "board_name">>

\* Keys::get_dmi_field
DmiKeyword(file) ==
    IF file = "sys_vendor" THEN "system-manufacturer"
    ELSE IF file = "product_name" THEN "system-product-name"
    ELSE IF file = "product_uuid" THEN "system-uuid"
    ELSE IF file = "product_serial" THEN "system-serial-number"
    ELSE IF file = "chassis_asset_tag" THEN "chassis-asset-tag"
    ELSE Panic

\* dmi_decode: [panic, value, ran]; ran tells whether dmidecode was started
dmi_decode(key, dmidecode) ==
    IF key = "board_name" THEN [panic |-> FALSE, value |-> None, ran |-> FALSE]
    ELSE IF ~IsSome(dmidecode) THEN [panic |-> FALSE, value |-> None, ran |-> TRUE]
    ELSE [panic |-> FALSE, value |-> Some(Unwrap(dmidecode)[DmiKeyword(key)]), ran |-> TRUE]

\* a file of sys_class_dmi_id: absent, unreadable for lack of permission,
\* failing with another I/O error, or readable
DmiMissing == [state |-> "missing", content |-> ""]
DmiDenied == [state |-> "denied", content |-> ""]
DmiIoError == [state |-> "ioerror", content |-> ""]
DmiFile(text) == [state |-> "ok", content |-> text]

\* a mutant: a field without a file is looked up with dmidecode
get_dmi_field_fallback(sys_class_dmi_id, key, dmidecode) ==
    IF sys_class_dmi_id.kind = "dir" THEN
        LET f == sys_class_dmi_id.files[key] IN
        IF f.state = "missing" THEN dmi_decode(key, dmidecode)
        ELSE IF f.state = "denied" THEN [panic |-> FALSE, value |-> None, ran |-> FALSE]
        ELSE IF f.state = "ioerror" THEN [panic |-> TRUE, value |-> None, ran |-> FALSE]
        ELSE [panic |-> FALSE, value |-> Some(f.content), ran |-> FALSE]
    ELSE dmi_decode(key, dmidecode)

\* get_dmi_field: [panic, value, ran]
get_dmi_field(sys_class_dmi_id, key, dmidecode) ==
    IF sys_class_dmi_id.kind = "dir" THEN
        LET f == sys_class_dmi_id.files[key] IN
        IF f.state = "missing" THEN [panic |-> FALSE, value |-> None, ran |-> FALSE]
        ELSE IF f.state = "denied" THEN [panic |-> FALSE, value |-> None, ran |-> FALSE]
        ELSE IF f.state = "ioerror" THEN [panic |-> TRUE, value |-> None, ran |-> FALSE]
        ELSE [panic |-> FALSE, value |-> Some(f.content), ran |-> FALSE]
    ELSE dmi_decode(key, dmidecode)

\* SMBIOS::from_kernel_name: [panic, fields, ran]
SMBIOS_from_kernel_name(kernel_name, sys_class_dmi_id, dmidecode) ==
    IF kernel_name = "FreeBSD" THEN
        [panic |-> TRUE, fields |-> [k \in {} |-> None], ran |-> FALSE]
    ELSE LET r == [i \in 1..Len(DmiKeys) |-> get_dmi_field(sys_class_dmi_id, DmiKeys[i], dmidecode)]
             keys == {DmiKeys[i] : i \in 1..Len(DmiKeys)}
         IN  [panic |-> \E i \in 1..Len(DmiKeys) : r[i].panic,
              fields |-> [k \in keys |->
                            r[CHOOSE i \in 1..Len(DmiKeys) : DmiKeys[i] = k].value],
              ran |-> \E i \in 1..Len(DmiKeys) : r[i].ran]

(***************************************************************************)
(* info.rs: FSInfo                                                         *)
(***************************************************************************)
\* the first position at which pat occurs in s from position i on, 0 if none
RECURSIVE FindStr(_, _, _)
FindStr(s, pat, i) ==
    IF i + Len(pat) - 1 > Len(s) THEN 0
    ELSE IF SubSeq(s, i, i + Len(pat) - 1) = pat THEN i
    ELSE FindStr(s, pat, i + 1)

\* str::split_once(&str): the text after the first occurrence of pat
AfterFirst(s, pat) ==
    LET i == FindStr(s, pat, 1) IN
    IF i = 0 THEN None ELSE Some(SubSeq(s, i + Len(pat), Len(s)))

\* what the loop of read_linux pushes for an iso9660 device
IsoDev(acc) ==
    IF IsSome(acc.dev) /\ acc.ftype = Some("iso9660")
    THEN acc.isodevs \o Unwrap(acc.dev) \o "=" \o
         (IF IsSome(acc.label) THEN Unwrap(acc.label) ELSE "") \o ","
    ELSE acc.isodevs

\* one iteration of the line loop of read_linux
BlkidLine(acc, line) ==
    IF IsSome(AfterFirst(line, "DEVNAME=")) THEN
        IF IsSome(acc.dev) THEN
            [acc EXCEPT !.isodevs = IsoDev(acc), !.ftype = None, !.label = None,
                        !.dev = AfterFirst(line, "DEVNAME=")]
        ELSE acc
    ELSE IF starts_with(line, "LABEL=") \/ starts_with(line, "LABEL_FATBOOT=") THEN
        LET value == IF IsSome(AfterFirst(line, "LABEL=")) THEN AfterFirst(line, "LABEL=")
                     ELSE AfterFirst(line, "LABEL_FATBOOT=")
        IN  [acc EXCEPT !.labels = @ \o Unwrap(value) \o ","]
    ELSE IF IsSome(AfterFirst(line, "TYPE=")) THEN
        [acc EXCEPT !.ftype = AfterFirst(line, "TYPE=")]
    ELSE IF IsSome(AfterFirst(line, "UUID=")) THEN
        [acc EXCEPT !.uuids = @ \o Unwrap(AfterFirst(line, "UUID=")) \o ","]
    ELSE acc

RECURSIVE BlkidLines(_, _)
BlkidLines(acc, ls) ==
    IF Len(ls) = 0 THEN acc ELSE BlkidLines(BlkidLine(acc, Head(ls)), Tail(ls))

\* FSInfo::blkid_export: [panic, out]
blkid_export(blkid) ==
    IF ~IsSome(blkid) THEN [panic |-> TRUE, out |-> None]
    ELSE IF ~Unwrap(blkid).ok THEN [panic |-> FALSE, out |-> None]
    ELSE [panic |-> FALSE, out |-> Some(Unwrap(blkid).stdout)]

\* FSInfo::read_linux: [panic, fs_labels, iso9660_devs, fs_uuids, ran]; ran
\* tells whether blkid was started
FSInfo_read_linux(container, blkid) ==
    IF container THEN
        [panic |-> FALSE, fs_labels |-> UNAVAILABLE \o ":container",
         iso9660_devs |-> UNAVAILABLE \o ":container", fs_uuids |-> None, ran |-> FALSE]
    ELSE LET e == blkid_export(blkid) IN
         IF e.panic THEN
            [panic |-> TRUE, fs_labels |-> "", iso9660_devs |-> "", fs_uuids |-> None,
             ran |-> TRUE]
         ELSE IF ~IsSome(e.out) THEN
            [panic |-> FALSE, fs_labels |-> UNAVAILABLE \o ":error",
             iso9660_devs |-> UNAVAILABLE \o ":error",
             fs_uuids |-> Some(UNAVAILABLE \o ":error"), ran |-> TRUE]
         ELSE LET acc == BlkidLines([labels |-> "", uuids |-> "", isodevs |-> "",
                                     ftype |-> None, dev |-> None, label |-> None],
                                    lines(Unwrap(e.out)))
              IN  [panic |-> FALSE, fs_labels |-> acc.labels, iso9660_devs |-> IsoDev(acc),
                   fs_uuids |-> Some(acc.uuids), ran |-> TRUE]

\* FSInfo::has_fs_with_label
has_fs_with_label(fs_labels, labels) ==
    \E i \in 1..Len(labels) : contains(fs_labels, "," \o labels[i] \o ",")

(***************************************************************************)
(* info.rs: Info::collect_info                                             *)
(*                                                                         *)
(* h is the host: environment variables, files and commands.  The result   *)
(* is [panic, ...] with the fields of Info; after a panic the fields are   *)
(* not meaningful.                                                         *)
(***************************************************************************)
collect_info(h) ==
    LET uname_info == UnameInfo_read(h.uname)
        virt == Virt_from(uname_info.kernel_name, h)
        container == is_container(virt)
        pid1_prod_name == read_pid1_product_name(h.proc_1_environ)
        kernel_cmdline == read_kernel_cmdline(h.proc_cmdline, h.proc_1_cmdline, container)
        config == Config_read(h.di_config, kernel_cmdline, uname_info.machine)
        dslist == DatasourceList_read(h.DI_DSNAME, h.etc_ci_cfg, h.etc_ci_cfg_d)
        smbios == SMBIOS_from_kernel_name(uname_info.kernel_name, h.sys_class_dmi_id,
                                          h.dmidecode)
        fs_info == FSInfo_read_linux(container, h.blkid)
        \* the calls are made in this order and the first panic ends the run
        panic == \/ uname_info.panic
                 \/ pid1_prod_name = Panic
                 \/ kernel_cmdline = Panic
                 \/ config.panic
                 \/ dslist.panic
                 \/ smbios.panic
                 \/ fs_info.panic
    IN  IF panic THEN [panic |-> TRUE]
        ELSE [panic |-> FALSE, uname_info |-> uname_info, virt |-> virt,
              pid1_prod_name |-> pid1_prod_name, kernel_cmdline |-> kernel_cmdline,
              config |-> config, dslist |-> dslist.list, smbios |-> smbios.fields,
              fs_info |-> fs_info]

(***************************************************************************)
(* dss.rs: the datasource checks                                           *)
(***************************************************************************)
DS_NOCLOUD == "ds=nocloud"

\* dscheck_none
dscheck_none(i, h) == "NotFound"

\* dscheck_no_cloud
dscheck_no_cloud(i, h) ==
    IF contains(i.kernel_cmdline, DS_NOCLOUD) THEN "Found"
    ELSE IF IsSome(i.smbios["product_serial"])
            /\ contains(Unwrap(i.smbios["product_serial"]), DS_NOCLOUD) THEN "Found"
    ELSE "NotFound"

\* dscheck_lxd
dscheck_lxd(i, h) ==
    IF h.dev_lxd_sock = "socket" THEN "Found"
    ELSE IF (i.virt = "kvm" \/ i.virt = "qemu")
            /\ i.smbios["board_name"] = Some("LXD") THEN "Found"
    ELSE "NotFound"

\* Datasource::dscheck_fn applied to the facts: the result of the check, or
\* Panic for a datasource without a check (todo!())
dscheck_fn(ds, i, h) ==
    IF ds.tag = "None" THEN dscheck_none(i, h)
    ELSE IF ds.tag = "NoCloud" THEN dscheck_no_cloud(i, h)
    ELSE IF ds.tag = "LXD" THEN dscheck_lxd(i, h)
    ELSE Panic

\* util::check_seed_dir; seed_dir maps a file name to whether it is a file
check_seed_dir(seed_dir, required) ==
    IF seed_dir.kind # "dir" THEN FALSE
    ELSE \A k \in 1..Len(required) : required[k] \in seed_dir.files

(***************************************************************************)
(* main.rs                                                                 *)
(***************************************************************************)
RET_DISABLED == 1
RET_ENABLED == 0
\* the exit status of a process that panicked, of one that returned from main
EXIT_PANIC == 101
EXIT_OK == 0

Digits == "0123456789"

\* str::parse::<i32>() succeeds: an optional sign and at least one digit (the
\* inputs are short, so the value fits)
ParsesAsI32(t) ==
    LET body == IF Len(t) > 0 /\ Ch(t, 1) \in {"-", "+"} THEN SubSeq(t, 2, Len(t)) ELSE t
    IN  Len(body) > 0 /\ \A k \in 1..Len(body) : FindFrom(Digits, Ch(body, k), 1) # 0

\* get_env_var
get_env_var(var, default) == IF IsSome(var) THEN Unwrap(var) ELSE default

\* debug: TRUE iff the call panics (DEBUG_LEVEL is parsed on every call)
debug_panics(h) == ~ParsesAsI32(get_env_var(h.DEBUG_LEVEL, "-1"))

\* is_manual_clean_and_exiting
is_manual_clean_and_exiting(h) == is_file(h.manual_clean)

RECURSIVE WriteLines(_, _)
\* the loop of write_result: writeln!(stream, "{}{}", pre, line)
WriteLines(pre, ls) ==
    IF Len(ls) = 0 THEN ""
    ELSE pre \o Head(ls) \o "\n" \o WriteLines(pre, Tail(ls))

\* what write_result puts into its BufWriter
write_result_text(content, mode) ==
    IF mode = "Report" THEN "di_report:\n" \o WriteLines("  ", lines(content))
    ELSE WriteLines("", lines(content))

\* write_result: [panic, fs].  File::open opens run_ci_cfg for reading only:
\* it fails (unwrap panics) when the file does not exist, and the buffered
\* text is flushed when the BufWriter is dropped, where the write to the
\* read-only descriptor fails and the error is discarded.
write_result(content, f, mode) ==
    IF ~IsSome(f.run_ci_cfg) THEN [panic |-> TRUE, fs |-> f]
    ELSE LET text == write_result_text(content, mode)
             writable == FALSE
         IN  [panic |-> FALSE,
              fs |-> IF writable
                     THEN [f EXCEPT !.run_ci_cfg = Some(text),
                                    !.written = @ \cup {"run_ci_cfg"}]
                     ELSE f]

(***************************************************************************)
(* The process: main and _main of main.rs                                  *)
(*                                                                         *)
(* env is the host the process starts on (arguments, environment           *)
(* variables, files, commands); fs is the state of the files under run_ci: *)
(* run_ci tells whether the directory exists, run_ci_cfg and run_di_result *)
(* are the content of the file if it exists, written is the set of files   *)
(* the process has written.                                                *)
(***************************************************************************)
UnameX86 == "Linux host 5.15.0-91-generic #101-Ubuntu SMP Tue x86_64 GNU/Linux\n"
UnameArm == "Linux host 5.15.0-91-generic #101-Ubuntu SMP Tue aarch64 GNU/Linux\n"

DmiDir == [kind |-> "dir",
           files |-> [k \in {DmiKeys[i] : i \in 1..Len(DmiKeys)} |->
                        IF k = "product_name" THEN DmiFile("Standard PC\n")
                        ELSE IF k = "product_serial" THEN DmiDenied
                        ELSE DmiMissing]]
DmiDirIoError == [DmiDir EXCEPT !.files["sys_vendor"] = DmiIoError]
DmiAbsent == [kind |-> "absent", files |-> [k \in {} |-> DmiMissing]]
Dmidecode == [k \in {"system-manufacturer", "system-product-name", "system-uuid",
                     "system-serial-number", "chassis-asset-tag"} |-> "QEMU\n"]

Fs(cfg, result) ==
    [run_ci |-> IsSome(cfg) \/ IsSome(result), run_ci_cfg |-> cfg,
     run_di_result |-> result, written |-> {}]

\* the cloud.cfg and cloud.cfg.d of a host
CfgHosts ==
    { <<Absent, NoDir>>,
      <<File("# cloud.cfg\ndatasource_list: [ Azure, None ]\n"), NoDir>>,
      <<File("users:\n - default\n"), DirOf(<<Entry("90_dpkg.cfg", "datasource_list: [ GCE ]\n")>>)>>,
      <<Dir, NoDir>> }

\* a host on which fact collection succeeds, with no configuration at all
Host0 ==
    [args |-> << >>, DI_MAIN |-> None, DEBUG_LEVEL |-> None, DI_DSNAME |-> None,
     uname |-> Some(UnameX86),
     is_systemd |-> TRUE, systemd_detect_virt |-> Ran(TRUE, "kvm\n", ""),
     sysctl_vm_guest |-> None, sysctl_jailed |-> None,
     proc_1_environ |-> File("HOME=/" \o NUL \o "TERM=linux" \o NUL),
     proc_cmdline |-> File("BOOT_IMAGE=/vmlinuz ro quiet\n"),
     proc_1_cmdline |-> File("/sbin/init" \o NUL),
     di_config |-> Absent, etc_ci_cfg |-> Absent, etc_ci_cfg_d |-> NoDir,
     sys_class_dmi_id |-> DmiDir, dmidecode |-> None,
     blkid |-> Ran(TRUE, "DEVNAME=/dev/sda1\nLABEL=cloudimg-rootfs\nUUID=1a2b\nTYPE=ext4\n", ""),
     dev_lxd_sock |-> "absent", manual_clean |-> Absent,
     fs0 |-> Fs(None, None)]

OldCfg == "datasource_list: [ Ec2, None ]\n"

FsInputs == {Fs(c, r) : c \in {None, Some(OldCfg)},
                        r \in {None, Some("0\n"), Some("1"), Some("2\n")}}

DiConfigInputs ==
    {Absent, Dir,
     File("policy: disabled\ndatasource: NoCloud\n"),
     File("policy: enabled\n"),
     File("datasource: NoCloud\n"),
     File("policy: report\n")}

ProcCmdlineInputs ==
    {Absent,
     File("BOOT_IMAGE=/vmlinuz ro quiet\n"),
     File("ro ci.ds=Ec2 quiet\n"),
     File("ro ci.di.policy=disabled quiet\n"),
     File("ro ci.di.policy=enabled ci.datasource=NoCloud quiet\n")}

\* hosts that differ in what decides the run
DecisionHosts ==
    {[Host0 EXCEPT !.args = a, !.fs0 = f, !.di_config = d, !.proc_cmdline = c,
                   !.uname = Some(u), !.DI_DSNAME = n, !.manual_clean = m] :
        a \in {<< >>, <<"--force">>}, f \in FsInputs, d \in DiConfigInputs,
        c \in ProcCmdlineInputs, u \in {UnameX86, UnameArm},
        n \in {None, Some("NoCloud"), Some("Ec2 None")}, m \in {Absent, File("")}}

VirtInputs ==
    { <<TRUE, Ran(TRUE, "kvm\n", "")>>,
      <<TRUE, Ran(TRUE, "lxc\n", "")>>,
      <<TRUE, Ran(FALSE, "none", "")>>,
      <<FALSE, None>> }

\* hosts that differ in the facts they offer
FactHosts ==
    {[Host0 EXCEPT !.DI_MAIN = dm, !.DEBUG_LEVEL = dl, !.uname = u,
                   !.is_systemd = v[1], !.systemd_detect_virt = v[2],
                   !.proc_1_environ = pe, !.etc_ci_cfg = ch[1], !.etc_ci_cfg_d = ch[2],
                   !.blkid = b, !.sys_class_dmi_id = dmi[1], !.dmidecode = dmi[2]] :
        dm \in {None, Some("print_info"), Some("noop"), Some("bogus")},
        dl \in {None, Some("verbose")},
        u \in {Some(UnameX86), Some("Linux\n"), None},
        v \in VirtInputs,
        pe \in {Host0.proc_1_environ, Absent, File("container" \o NUL)},
        ch \in CfgHosts,
        b \in {Host0.blkid, None},
        dmi \in {<<DmiDir, None>>, <<DmiAbsent, Some(Dmidecode)>>, <<DmiDirIoError, None>>}}

Hosts ==
    DecisionHosts \cup FactHosts
    \cup {[Host0 EXCEPT !.DI_MAIN = dm, !.di_config = d, !.manual_clean = m] :
            dm \in {Some("print_info"), Some("main")}, d \in DiConfigInputs,
            m \in {Absent, File("")}}
    \cup {[Host0 EXCEPT !.systemd_detect_virt = Ran(TRUE, v \o "\n", ""),
                         !.proc_1_cmdline = c1, !.proc_cmdline = c] :
            v \in {"lxc", "docker", "kvm"},
            c1 \in {Absent, File(""), File("/sbin/init" \o NUL),
                    File("/sbin/init" \o NUL \o "splash" \o NUL)},
            c \in {Absent, Dir, File(""), File("BOOT_IMAGE=/vmlinuz ro quiet\n")}}

Init ==
    /\ env \in Hosts
    /\ fs = env.fs0
    /\ pc = "main"
    /\ info = None
    /\ exit_code = None
    /\ probes = << >>
    /\ found = << >>
    /\ fin = None
    /\ fout = None

HarnessUnchanged == UNCHANGED <<fin, fout, probes, found, env>>

\* process::exit(code), the return from main, or the end by a panic
Exit(code) ==
    /\ pc' = "exited"
    /\ exit_code' = Some(code)

\* main
Main ==
    /\ pc = "main"
    /\ LET di_main == get_env_var(env.DI_MAIN, "main") IN
       IF di_main \in {"main", "print_info", "noop"} THEN
            /\ pc' = "_main"
            /\ UNCHANGED exit_code
       ELSE \* error() logs through debug, then process::exit(1)
            IF debug_panics(env) THEN Exit(EXIT_PANIC) ELSE Exit(1)
    /\ UNCHANGED <<fs, info>>
    /\ HarnessUnchanged

\* _main up to the dump of the facts: the first debug call, collect_info
CollectInfo ==
    /\ pc = "_main"
    /\ IF debug_panics(env) THEN Exit(EXIT_PANIC) /\ UNCHANGED info
       ELSE LET i == collect_info(env) IN
            IF i.panic THEN Exit(EXIT_PANIC) /\ UNCHANGED info
            ELSE /\ info' = Some(i)
                 /\ pc' = "mode"
                 /\ UNCHANGED exit_code
    /\ UNCHANGED fs
    /\ HarnessUnchanged

\* a mutant: a disabled mode is not checked and the run goes on
CheckMode_disabled_falls_through ==
    /\ pc = "mode"
    /\ LET mode == Unwrap(info).config.mode IN
       IF mode = "Enabled" THEN
            IF debug_panics(env) THEN Exit(EXIT_PANIC) ELSE Exit(RET_ENABLED)
       ELSE /\ pc' = "dsname"
            /\ UNCHANGED exit_code
    /\ UNCHANGED <<fs, info>>
    /\ HarnessUnchanged

\* a mutant: the two exit codes are exchanged
CheckMode_exit_swapped ==
    /\ pc = "mode"
    /\ LET mode == Unwrap(info).config.mode IN
       IF mode = "Disabled" THEN
            IF debug_panics(env) THEN Exit(EXIT_PANIC) ELSE Exit(RET_ENABLED)
       ELSE IF mode = "Enabled" THEN
            IF debug_panics(env) THEN Exit(EXIT_PANIC) ELSE Exit(RET_DISABLED)
       ELSE /\ pc' = "dsname"
            /\ UNCHANGED exit_code
    /\ UNCHANGED <<fs, info>>
    /\ HarnessUnchanged

\* _main: match info.config.mode
CheckMode ==
    /\ pc = "mode"
    /\ LET mode == Unwrap(info).config.mode IN
       IF mode = "Disabled" THEN
            IF debug_panics(env) THEN Exit(EXIT_PANIC) ELSE Exit(RET_DISABLED)
       ELSE IF mode = "Enabled" THEN
            IF debug_panics(env) THEN Exit(EXIT_PANIC) ELSE Exit(RET_ENABLED)
       ELSE /\ pc' = "dsname"
            /\ UNCHANGED exit_code
    /\ UNCHANGED <<fs, info>>
    /\ HarnessUnchanged

\* _main: if let Some(dsname) = info.config.dsname
CheckDsname ==
    /\ pc = "dsname"
    /\ IF IsSome(Unwrap(info).config.dsname) THEN
            IF debug_panics(env) THEN Exit(EXIT_PANIC) ELSE Exit(EXIT_OK)
       ELSE /\ pc' = "manual_clean"
            /\ UNCHANGED exit_code
    /\ UNCHANGED <<fs, info>>
    /\ HarnessUnchanged

\* _main: if is_manual_clean_and_exiting, and the end of the function
CheckManualClean ==
    /\ pc = "manual_clean"
    /\ IF is_manual_clean_and_exiting(env) THEN
            IF debug_panics(env) THEN Exit(EXIT_PANIC) /\ UNCHANGED fs
            ELSE LET w == write_result("# manual_cache_clean.", fs, Unwrap(info).config.mode)
                 IN  /\ fs' = w.fs
                     /\ IF w.panic THEN Exit(EXIT_PANIC) ELSE Exit(EXIT_OK)
       ELSE Exit(EXIT_OK) /\ UNCHANGED fs
    /\ UNCHANGED info
    /\ HarnessUnchanged

Next ==
    \/ Main
    \/ CollectInfo
    \/ CheckMode
    \/ CheckDsname
    \/ CheckManualClean

Spec == Init /\ [][Next]_vars

(***************************************************************************)
(* Properties of the process                                               *)
(***************************************************************************)
Exited == pc = "exited"
Resolved == IsSome(info)
Mode == Unwrap(info).config.mode
RunsMain == get_env_var(env.DI_MAIN, "main") \in {"main", "print_info", "noop"}
CfgUntouched == fs.run_ci_cfg = env.fs0.run_ci_cfg /\ "run_ci_cfg" \notin fs.written

\* C1: a run whose resolved mode is Disabled goes from the mode check straight
\* to exit code 1, whatever dsname, the manual-clean marker and the datasource
\* list are, and run_ci_cfg is neither created nor overwritten.
C1_DisabledExitsOne ==
    (Resolved /\ Mode = "Disabled")
    => /\ pc \in {"mode", "exited"}
       /\ CfgUntouched
       /\ Exited => exit_code = Some(1)

C1_Witness ==
    /\ Exited /\ Resolved /\ Mode = "Disabled"
    /\ IsSome(Unwrap(info).config.dsname)
    /\ is_file(env.manual_clean)
    /\ IsSome(env.DI_DSNAME)
    /\ IsSome(fs.run_ci_cfg)
    /\ exit_code = Some(1)

\* C2: a run whose resolved mode is Enabled goes from the mode check straight
\* to exit code 0, whatever dsname, the manual-clean marker and the datasource
\* list are, and run_ci_cfg is neither created nor overwritten.
C2_EnabledExitsZero ==
    (Resolved /\ Mode = "Enabled")
    => /\ pc \in {"mode", "exited"}
       /\ CfgUntouched
       /\ Exited => exit_code = Some(0)

C2_Witness ==
    /\ Exited /\ Resolved /\ Mode = "Enabled"
    /\ IsSome(Unwrap(info).config.dsname)
    /\ is_file(env.manual_clean)
    /\ ~IsSome(fs.run_ci_cfg)
    /\ exit_code = Some(0)

Forced == Len(env.args) > 0 /\ env.args[1] = "--force"
CachedCode ==
    IF IsSome(env.fs0.run_di_result) THEN trim(Unwrap(env.fs0.run_di_result)) ELSE ""
CacheHit ==
    /\ ~Forced
    /\ IsSome(env.fs0.run_ci_cfg)
    /\ IsSome(env.fs0.run_di_result)
    /\ CachedCode \in {"0", "1"}
CodeText(c) == IF c = 0 THEN "0" ELSE "1"

\* C3: in a run of the engine that is a cache hit (no --force first, run_ci_cfg
\* and run_di_result exist, the trimmed result is 0 or 1) no fact is ever
\* collected, and the run exits with the cached code and writes nothing.
C3_CacheShortCircuit ==
    (RunsMain /\ CacheHit)
    => /\ ~Resolved
       /\ Exited => /\ exit_code = Some(IF CachedCode = "0" THEN 0 ELSE 1)
                    /\ fs = env.fs0

\* C4: a run that ends with mode Search or Report and dsname set has exit code
\* 0 and leaves run_ci_cfg containing `datasource_list: [dsname]`.
C4_DsnameSelected ==
    (Exited /\ Resolved /\ Mode \in {"Search", "Report"}
        /\ IsSome(Unwrap(info).config.dsname))
    => /\ exit_code = Some(0)
       /\ IsSome(fs.run_ci_cfg)
       /\ contains(Unwrap(fs.run_ci_cfg),
                   "datasource_list: [" \o Unwrap(Unwrap(info).config.dsname) \o "]")

\* C8: a run of the engine that is not a cache hit and ends with exit code 0
\* or 1 leaves run_ci existing and run_di_result holding the decimal text of
\* that code.
C8_ResultRecorded ==
    (Exited /\ RunsMain /\ ~CacheHit /\ exit_code \in {Some(0), Some(1)})
    => /\ fs.run_ci
       /\ IsSome(fs.run_di_result)
       /\ trim(Unwrap(fs.run_di_result)) = CodeText(Unwrap(exit_code))

(***************************************************************************)
(* The probing steps of the arbiter                                        *)
(*                                                                         *)
(* _main ends after the manual-clean step.  The steps that follow it in    *)
(* the design (the single-entry shortcut, the dispatch loop, the decision  *)
(* and the record of the result) are modelled from the design document,    *)
(* over the operations the sources do provide: only_one_not_none,          *)
(* keep_first, as_old_list, dscheck_fn and the checks, write_result.       *)
(*                                                                         *)
(* found is [next, found, maybe, selected]: the index of the next entry of *)
(* the list, the datasources found and maybe found so far, the selected    *)
(* list.  probes is the sequence of the checks dispatched: [idx, ds,       *)
(* result].                                                                *)
(***************************************************************************)
ArbiterNames == {"NoCloud", "LXD", "Ec2"}

\* the facts the checks read
ArbiterFacts ==
    {[kernel_cmdline |-> k, product_serial |-> ps, virt |-> l[1], board_name |-> l[2],
      dev_lxd_sock |-> l[3]] :
        k \in {"BOOT_IMAGE=/vmlinuz ro quiet\n", "ro ds=nocloud quiet\n"},
        ps \in {None, Some("ds=nocloud;s=http://10.0.2.2/\n")},
        l \in { <<"kvm", None, "absent">>, <<"kvm", Some("LXD"), "absent">>,
                <<"lxc", None, "socket">>, <<"none", Some("LXD"), "file">> }}

ArbiterInfo(names, mode, on_found, on_maybe, on_notfound, f) ==
    [panic |-> FALSE,
     config |-> [panic |-> FALSE, dsname |-> None, mode |-> mode, on_found |-> on_found,
                 on_maybe |-> on_maybe, on_notfound |-> on_notfound],
     dslist |-> DatasourceList_from(join(names, " ")),
     kernel_cmdline |-> f.kernel_cmdline,
     virt |-> f.virt,
     smbios |-> [k \in {DmiKeys[i] : i \in 1..Len(DmiKeys)} |->
                    IF k = "product_serial" THEN f.product_serial
                    ELSE IF k = "board_name" THEN f.board_name
                    ELSE None]]

InitArbiter ==
    /\ \E names \in SeqUpTo(ArbiterNames, MaxNames), mode \in {"Search", "Report"},
          on_found \in {"All", "First"}, on_maybe \in {"All", "None"},
          on_notfound \in {"Disabled", "Enabled"}, f \in ArbiterFacts,
          cfg \in {None, Some(OldCfg)} :
            /\ info = Some(ArbiterInfo(names, mode, on_found, on_maybe, on_notfound, f))
            /\ env = [Host0 EXCEPT !.dev_lxd_sock = f.dev_lxd_sock, !.fs0 = Fs(cfg, None)]
    /\ fs = env.fs0
    /\ pc = "shortcut"
    /\ exit_code = None
    /\ probes = << >>
    /\ found = [next |-> 1, found |-> << >>, maybe |-> << >>, selected |-> None]
    /\ fin = None
    /\ fout = None

\* the output of a selected list
RenderSelected(list) == "datasource_list: [" \o join(as_old_list(list), ", ") \o "]"

NEGATIVE_RESULT == "# ds-identify found no datasource"

\* write the fragment with write_result; the decision is recorded next
Decision(text, code) ==
    LET w == write_result(text, fs, Unwrap(info).config.mode) IN
    /\ fs' = w.fs
    /\ IF w.panic THEN Exit(EXIT_PANIC)
       ELSE /\ pc' = "record"
            /\ exit_code' = Some(code)

\* step 5: a list of one entry, or of two ending in None, is selected as is
Shortcut ==
    /\ pc = "shortcut"
    /\ LET list == Unwrap(info).dslist IN
       IF only_one_not_none(list) THEN
            /\ found' = [found EXCEPT !.selected = Some(list)]
            /\ Decision(RenderSelected(list), 0)
       ELSE /\ pc' = "dispatch"
            /\ UNCHANGED <<found, fs, exit_code>>
    /\ UNCHANGED <<info, probes, env, fin, fout>>

\* step 6: the check of the next entry of the list; Unknown is skipped
Dispatch ==
    /\ pc = "dispatch"
    /\ found.next <= Len(Unwrap(info).dslist)
    /\ LET ds == Unwrap(info).dslist[found.next] IN
       IF ds.tag = "Unknown" THEN
            /\ found' = [found EXCEPT !.next = @ + 1]
            /\ UNCHANGED probes
       ELSE LET r == dscheck_fn(ds, Unwrap(info), env) IN
            /\ probes' = Append(probes, [idx |-> found.next, ds |-> ds, result |-> r])
            /\ found' = [found EXCEPT !.next = @ + 1,
                            !.found = IF r = "Found" THEN Append(@, ds) ELSE @,
                            !.maybe = IF r = "Maybe" THEN Append(@, ds) ELSE @]
    /\ UNCHANGED <<pc, info, fs, exit_code, env, fin, fout>>

\* steps 7 to 9: the decision once every entry has been checked
Decide ==
    /\ pc = "dispatch"
    /\ found.next > Len(Unwrap(info).dslist)
    /\ LET c == Unwrap(info).config IN
       IF Len(found.found) > 0 THEN
            LET list == IF c.on_found = "First" THEN keep_first(found.found)
                        ELSE found.found
            IN  /\ found' = [found EXCEPT !.selected = Some(list)]
                /\ Decision(RenderSelected(list), 0)
       ELSE IF Len(found.maybe) > 0 /\ c.on_maybe # "None" THEN
            /\ found' = [found EXCEPT !.selected = Some(found.maybe)]
            /\ Decision(RenderSelected(found.maybe), 0)
       ELSE /\ UNCHANGED found
            /\ Decision(NEGATIVE_RESULT,
                        IF c.mode = "Search" /\ c.on_notfound = "Disabled" THEN 1 ELSE 0)
    /\ UNCHANGED <<info, probes, env, fin, fout>>

\* the decision is recorded in run_di_result, run_ci is created if missing
Record ==
    /\ pc = "record"
    /\ fs' = [fs EXCEPT !.run_ci = TRUE,
                        !.run_di_result = Some(CodeText(Unwrap(exit_code))),
                        !.written = @ \cup {"run_di_result"}]
    /\ pc' = "exited"
    /\ UNCHANGED <<info, exit_code, probes, found, env, fin, fout>>

NextArbiter ==
    \/ Shortcut
    \/ Dispatch
    \/ Decide
    \/ Record

SpecArbiter == InitArbiter /\ [][NextArbiter]_vars

\* the indexes of the entries checked and found, in the order of the checks
FoundIdx == SelectSeq(probes, LAMBDA p : p.result = "Found")
Checkable(i) == Unwrap(info).dslist[i].tag # "Unknown"

NothingAccepted ==
    /\ found.next > Len(Unwrap(info).dslist)
    /\ Len(found.found) = 0
    /\ Len(found.maybe) = 0 \/ Unwrap(info).config.on_maybe = "None"

\* C6: a run in which every entry was checked, none was found and no maybe
\* was accepted ends with the exit code of the (mode, on_notfound) matrix, 1
\* for Search with Disabled and 0 otherwise, and has written a negative
\* result to run_ci_cfg.
C6_NotFoundMatrix ==
    (pc = "exited" /\ ~only_one_not_none(Unwrap(info).dslist) /\ NothingAccepted)
    => /\ exit_code = Some(IF Unwrap(info).config.mode = "Search"
                              /\ Unwrap(info).config.on_notfound = "Disabled"
                           THEN 1 ELSE 0)
       /\ "run_ci_cfg" \in fs.written
       /\ IsSome(fs.run_ci_cfg)
       /\ contains(Unwrap(fs.run_ci_cfg), NEGATIVE_RESULT)

(***************************************************************************)
(* Function harnesses: Init draws an input, the action applies the         *)
(* function to it.  The process variables stay idle.                       *)
(***************************************************************************)
ProcessIdle ==
    /\ pc = "fn"
    /\ env = << >>
    /\ fs = << >>
    /\ info = None
    /\ exit_code = None
    /\ probes = << >>
    /\ found = << >>

ProcessUnchanged == UNCHANGED <<pc, env, fs, info, exit_code, probes, found>>

\* ---- Config::read on generated policy strings ----
Machines == {"i386", "i686", "x86_64", "aarch64", "armv7l", "riscv64"}

\* policy tokens, each with the knob it names ("" when it names none)
PolicyTokTable ==
    << <<"search", "mode">>, <<"report", "mode">>, <<"enabled", "mode">>,
       <<"disabled", "mode">>, <<"found=first", "found">>, <<"found=all", "found">>,
       <<"found=last", "found">>, <<"maybe=none", "maybe">>, <<"maybe=all", "maybe">>,
       <<"notfound=enabled", "notfound">>, <<"notfound=disabled", "notfound">>,
       <<"notfound=enable", "notfound">>, <<"notfound=disable", "notfound">>,
       <<"report=yes", "">>, <<"bogus", "">> >>

PolicyTokSet == {PolicyTokTable[i][1] : i \in 1..Len(PolicyTokTable)}

KnobOf(tok) ==
    PolicyTokTable[CHOOSE i \in 1..Len(PolicyTokTable) : PolicyTokTable[i][1] = tok][2]

PolicyInputs ==
    {[op |-> "config", machine |-> m, where |-> "none", ptoks |-> << >>] : m \in Machines}
    \cup
    {[op |-> "config", machine |-> m, where |-> w, ptoks |-> t] :
        m \in Machines, w \in {"file", "cmdline"}, t \in SeqUpTo(PolicyTokSet, MaxPolicyToks)}
    \cup
    {[op |-> "read", machine |-> "x86_64", file_dsname |-> fd, file_policy |-> fp,
      ktoks |-> k] :
        fd \in {None, Some("NoCloud")}, fp \in {None, Some("report,found=first")},
        k \in SeqUpTo({"ci.ds=Ec2", "ci.datasource=LXD", "ci.di.policy=search,maybe=none",
                       "ci.di.policy=disabled", "quiet", "ci.dsx=Azure"}, MaxCmdToks)}
    \cup
    {[op |-> "file", machine |-> "x86_64", flines |-> ls, ktoks |-> <<"ro", "quiet">>] :
        ls \in SeqUpTo({"policy: disabled # note", "policy: " \o QUOTE \o "disabled" \o QUOTE,
                        "policy: 'enabled'", "policy: report", "datasource: NoCloud",
                        " datasource : Ec2  # was NoCloud", "# datasource: LXD",
                        "no colon here", "mode: disabled"}, MaxPolicyToks)}

\* the host files of a policy input
PolicyDiConfig(i) ==
    IF i.where = "file" THEN File("policy: " \o join(i.ptoks, ",") \o "\n") ELSE Absent

PolicyCmdline(i) ==
    IF i.where = "cmdline" THEN "ro ci.di.policy=" \o join(i.ptoks, ",") \o " quiet\n"
    ELSE "ro quiet\n"

InitPolicy == ProcessIdle /\ fin \in PolicyInputs /\ fout = None

ApplyConfigRead ==
    /\ fin.op = "config"
    /\ fout = None
    /\ fout' = Some(Config_read(PolicyDiConfig(fin), PolicyCmdline(fin), fin.machine))
    /\ UNCHANGED fin
    /\ ProcessUnchanged

\* the di_config and the kernel command line of a "read" input: the lines of
\* the file, the tokens separated by one space and the newline that ends
\* /proc/cmdline
ReadDiConfig(i) ==
    IF i.op = "file" THEN File(join([k \in 1..Len(i.flines) |-> i.flines[k] \o "\n"], ""))
    ELSE IF ~IsSome(i.file_dsname) /\ ~IsSome(i.file_policy) THEN Absent
    ELSE File((IF IsSome(i.file_policy) THEN "policy: " \o Unwrap(i.file_policy) \o "\n" ELSE "")
              \o (IF IsSome(i.file_dsname) THEN "datasource: " \o Unwrap(i.file_dsname) \o "\n"
                  ELSE ""))

ApplyConfigReadHost ==
    /\ fin.op \in {"read", "file"}
    /\ fout = None
    /\ fout' = Some(Config_read(ReadDiConfig(fin), join(fin.ktoks, " ") \o "\n", fin.machine))
    /\ UNCHANGED fin
    /\ ProcessUnchanged

NextPolicy ==
    \/ ApplyConfigRead
    \/ ApplyConfigReadHost

SpecPolicy == InitPolicy /\ [][NextPolicy]_vars

\* ---- DatasourceList::read on generated lists ----
DsNames == {"NoCloud", "nocloud", "LXD", "Ec2", "None"}

\* the ways a datasource_list value is written in a config file
RenderList(ns, style) ==
    IF style = "brackets" THEN "[" \o join(ns, ", ") \o "]"
    ELSE IF style = "quoted" THEN join([i \in 1..Len(ns) |-> "'" \o ns[i] \o "'"], ",")
    ELSE join(ns, ", ")

ListInputs ==
    {[op |-> "list", src |-> "env", names |-> ns,
      DI_DSNAME |-> Some(pad \o join(ns, sep) \o pad),
      etc_ci_cfg |-> h[1], etc_ci_cfg_d |-> h[2]] :
        ns \in SeqUpTo(DsNames, MaxNames), sep \in {" ", "  ", "\t", "\n "},
        pad \in {"", " "}, h \in CfgHosts}
    \cup
    {[op |-> "list", src |-> "cfg", names |-> ns, DI_DSNAME |-> None,
      etc_ci_cfg |-> File("datasource_list: " \o RenderList(ns, style) \o "\n"),
      etc_ci_cfg_d |-> NoDir] :
        ns \in SeqUpTo(DsNames, MaxNames) \ {<< >>}, style \in {"brackets", "quoted", "plain"}}
    \cup
    {[op |-> "list", src |-> "default", names |-> << >>, DI_DSNAME |-> None,
      etc_ci_cfg |-> h[1], etc_ci_cfg_d |-> h[2]] : h \in CfgHosts}
    \cup
    {[op |-> "list", src |-> "files", names |-> << >>, DI_DSNAME |-> None,
      etc_ci_cfg |-> c, etc_ci_cfg_d |-> d] :
        c \in {Absent, Dir,
               File("datasource_list: [ Azure ]\n"),
               File("# cloud.cfg\ndatasource_list: [ Azure ] # was Ec2\nusers: x\n"
                    \o " datasource_list : Ec2, None\n"),
               File("users:\n - default\n#datasource_list: [ Ec2 ]\n")},
        d \in {NoDir} \cup
              {DirOf(es) :
                es \in SeqUpTo({Entry("90_dpkg.cfg", "datasource_list: [ GCE ]\n"),
                                Entry("05_logging.cfg", "output: all\n"),
                                Entry("README", "datasource_list: [ Ec2 ]\n"),
                                Entry(".cfg", "datasource_list: [ LXD ]\n")}, MaxNames)}}

InitList == ProcessIdle /\ fin \in ListInputs /\ fout = None

ApplyListRead ==
    /\ fin.op = "list"
    /\ fout = None
    /\ LET r == DatasourceList_read(fin.DI_DSNAME, fin.etc_ci_cfg, fin.etc_ci_cfg_d)
           \* the two calls read makes when DI_DSNAME is not set
           cfg_paths == IF r.cfg_read THEN etc_ci_cfg_paths(fin.etc_ci_cfg, fin.etc_ci_cfg_d)
                        ELSE [panic |-> FALSE, paths |-> << >>]
           value == check_config("datasource_list", cfg_paths.paths)
       IN  fout' = Some([read |-> r, only_one |-> only_one_not_none(r.list),
                         cfg_paths |-> cfg_paths, value |-> value,
                         old_list |-> as_old_list(r.list), old_str |-> to_old_str(r.list)])
    /\ UNCHANGED fin
    /\ ProcessUnchanged

NextList == ApplyListRead

SpecList == InitList /\ [][NextList]_vars

(***************************************************************************)
(* Claims on the function harnesses                                        *)
(***************************************************************************)
\* C7: a list resolved from DI_DSNAME or from a datasource_list value is
\* selected verbatim (only_one_not_none is true) if and only if it has exactly
\* one name, or exactly two names whose second name is `None`.
C7_SingleEntryShortcut ==
    (IsSome(fout) /\ fin.op = "list" /\ fin.src \in {"env", "cfg"} /\ ~Unwrap(fout).read.panic)
    => (Unwrap(fout).only_one
        <=> (\/ Len(fin.names) = 1
             \/ Len(fin.names) = 2 /\ fin.names[2] = "None"))

\* the variant-independent name of a list element
NameOf(ds) == IF ds.tag = "Unknown" THEN ds.name ELSE ds.tag

\* C9: if DI_DSNAME is set, DatasourceList::read returns exactly the
\* whitespace-split of its value, in order and with duplicates preserved, and
\* the config files are not consulted.
C9_DsnameOverridesConfig ==
    (IsSome(fout) /\ fin.op = "list" /\ fin.src = "env")
    => LET r == Unwrap(fout).read IN
       /\ ~r.panic
       /\ ~r.cfg_read
       /\ Len(r.list) = Len(fin.names)
       /\ \A i \in 1..Len(fin.names) :
              to_lowercase(NameOf(r.list[i])) = to_lowercase(fin.names[i])

\* C9 witness: DI_DSNAME holds a duplicated name next to a config file that
\* sets another list, and the read has returned
C9_Witness ==
    /\ IsSome(fout) /\ fin.op = "list" /\ fin.src = "env"
    /\ fin.names = <<"Ec2", "Ec2">>
    /\ fin.etc_ci_cfg.kind = "file"
    /\ Len(Unwrap(fout).read.list) = 2

\* the machine default of the policy, as the documentation states it
DocDefault(machine) ==
    [mode |-> "Search", on_found |-> "All", on_maybe |-> "All",
     on_notfound |-> IF machine \in {"i386", "i686", "x86_64"} THEN "Disabled" ELSE "Enabled"]

Names(toks, knob) == \E i \in 1..Len(toks) : KnobOf(toks[i]) = knob

\* C10: the default policy depends only on uname.machine ({Search, All, All,
\* Disabled} for i386, i686 and x86_64, {Search, All, All, Enabled}
\* otherwise), and a policy string only overrides the knobs it names.
C10_MachineDefaultPolicy ==
    (IsSome(fout) /\ fin.op = "config")
    => LET c == Unwrap(fout)
           d == DocDefault(fin.machine)
       IN  /\ ~c.panic
           /\ ~Names(fin.ptoks, "mode") => c.mode = d.mode
           /\ ~Names(fin.ptoks, "found") => c.on_found = d.on_found
           /\ ~Names(fin.ptoks, "maybe") => c.on_maybe = d.on_maybe
           /\ ~Names(fin.ptoks, "notfound") => c.on_notfound = d.on_notfound

\* C10 witness: on a machine without DMI a policy string naming only `found`
\* has been parsed, and notfound stayed at the machine default
C10_Witness ==
    /\ IsSome(fout) /\ fin.op = "config"
    /\ fin.machine = "aarch64"
    /\ fin.ptoks = <<"found=first">>
    /\ Unwrap(fout).on_found = "First"
    /\ Unwrap(fout).on_notfound = "Enabled"

\* what the design says a policy token sets: <<knob, value>>, knob "" for a
\* token it does not list
DocTok(tok) ==
    IF tok = "enabled" THEN <<"mode", "Enabled">>
    ELSE IF tok = "disabled" THEN <<"mode", "Disabled">>
    ELSE IF tok = "search" THEN <<"mode", "Search">>
    ELSE IF tok = "report" THEN <<"mode", "Report">>
    ELSE IF tok = "found=all" THEN <<"found", "All">>
    ELSE IF tok = "found=first" THEN <<"found", "First">>
    ELSE IF tok = "maybe=all" THEN <<"maybe", "All">>
    ELSE IF tok = "maybe=none" THEN <<"maybe", "None">>
    ELSE IF tok = "notfound=enable" THEN <<"notfound", "Enabled">>
    ELSE IF tok = "notfound=disable" THEN <<"notfound", "Disabled">>
    ELSE <<"", "">>

\* the last token of toks that the design lists for the knob sets it to v
DocSets(toks, knob, v) ==
    \E i \in 1..Len(toks) :
        /\ DocTok(toks[i]) = <<knob, v>>
        /\ \A j \in (i + 1)..Len(toks) : DocTok(toks[j])[1] # knob

\* C11: for a policy string made of the tokens the design lists, each knob
\* has the value of the last token that names it: a bare enabled, disabled,
\* search or report sets mode, found=all|first sets on_found, maybe=all|none
\* sets on_maybe, notfound=enable|disable sets on_notfound.
C11_PolicyTokens ==
    (IsSome(fout) /\ fin.op = "config" /\ ~Unwrap(fout).panic
        /\ \A i \in 1..Len(fin.ptoks) : DocTok(fin.ptoks[i])[1] # "")
    => LET c == Unwrap(fout) IN
       /\ \A v \in {"Enabled", "Disabled", "Search", "Report"} :
            DocSets(fin.ptoks, "mode", v) => c.mode = v
       /\ \A v \in {"All", "First"} : DocSets(fin.ptoks, "found", v) => c.on_found = v
       /\ \A v \in {"All", "None"} : DocSets(fin.ptoks, "maybe", v) => c.on_maybe = v
       /\ \A v \in {"Enabled", "Disabled"} :
            DocSets(fin.ptoks, "notfound", v) => c.on_notfound = v

\* the value of the last token of toks with one of the keys, if there is one
LastValue(toks, keys) ==
    LET hits == {i \in 1..Len(toks) : \E k \in keys : starts_with(toks[i], k \o "=")} IN
    IF hits = {} THEN None
    ELSE LET i == CHOOSE i \in hits : \A j \in hits : j <= i IN
         Some(Unwrap(split_once(toks[i], "="))[2])

\* C12: dsname is the value of the last ci.ds= or ci.datasource= token of the
\* kernel command line, else the datasource value of di_config, else unset; the
\* policy is parsed from the value of the last ci.di.policy= token, else from the
\* policy value of di_config, and the two policy strings are never merged.
C12_ReadPrecedence ==
    (IsSome(fout) /\ fin.op = "read")
    => LET c == Unwrap(fout)
           kds == LastValue(fin.ktoks, {"ci.ds", "ci.datasource"})
           kpol == LastValue(fin.ktoks, {"ci.di.policy"})
           pol == IF IsSome(kpol) THEN kpol ELSE fin.file_policy
           p == IF IsSome(pol) THEN Policy_parse_from_str(Unwrap(pol), fin.machine)
                ELSE Policy_parse_from_uname(fin.machine)
       IN  /\ ~c.panic
           /\ c.dsname = (IF IsSome(kds) THEN kds ELSE fin.file_dsname)
           /\ c.mode = p.mode /\ c.on_found = p.on_found
           /\ c.on_maybe = p.on_maybe /\ c.on_notfound = p.on_notfound

(***************************************************************************)
(* Harness of the functions of util.rs, info.rs, dss.rs and main.rs that   *)
(* take their input as arguments                                           *)
(***************************************************************************)
\* what `blkid -o export` prints for filesystems with the given labels
BlkidExport(labels) ==
    join([i \in 1..Len(labels) |->
            "DEVNAME=/dev/vd" \o Ch(LowerChars, i) \o "\nLABEL=" \o labels[i]
            \o "\nUUID=0000-000" \o Ch(Digits, i) \o "\nTYPE=vfat\n"], "\n")

InitUtil ==
    /\ ProcessIdle
    /\ fout = None
    /\ LET strs == {join(q, "") : q \in SeqUpTo({"a", TICK, QUOTE, " "}, MaxStrLen)}
           \* the lines `blkid -o export` prints for one device
           group(g) == "DEVNAME=" \o g.dev \o "\n" \o g.key \o "=" \o g.label \o "\n"
                       \o "UUID=" \o g.uuid \o "\n" \o "TYPE=" \o g.type \o "\n"
                       \o (IF g.partuuid = "" THEN "" ELSE "PARTUUID=" \o g.partuuid \o "\n")
           items == SeqUpTo({"a", "'b'", QUOTE \o "c" \o QUOTE, "d e"}, MaxNames)
       IN  fin \in
            {[op |-> "unquote", s |-> t, wrap |-> w] : t \in strs, w \in {"", TICK, QUOTE}}
            \cup
            {[op |-> "yaml", items |-> it, sep |-> sp] :
                it \in items \ {<< >>}, sp \in {",", ", ", " , "}}
            \cup
            {[op |-> "fsinfo", virt |-> v, blkid |-> b, labels |-> <<"cidata">>,
              export |-> BlkidExport(<<"cidata">>), query |-> "cidata"] :
                v \in {"container-other", "lxc", "lxc-libvirt", "systemd-nspawn", "docker",
                       "rkt", "jail", "LXC", "kvm", "none", UNAVAILABLE},
                b \in {"ok", "failed", "missing"}}
            \cup
            {[op |-> "fsinfo", virt |-> "kvm", blkid |-> "ok", labels |-> l,
              export |-> BlkidExport(l), query |-> q] :
                l \in SeqUpTo({"cidata", "CIDATA", "data", "cidata2"}, MaxNames),
                q \in {"cidata", "CIDATA", "data"}}
            \cup
            {[op |-> "blkid", virt |-> "kvm", blkid |-> "ok", groups |-> gs,
              export |-> join([k \in 1..Len(gs) |-> group(gs[k])], "\n"),
              query |-> "cidata"] :
                gs \in SeqUpTo(
                    {[dev |-> "/dev/sr0", type |-> "iso9660", key |-> "LABEL",
                      label |-> "cidata", uuid |-> "2024-01-01-00", partuuid |-> ""],
                     [dev |-> "/dev/sr1", type |-> "iso9660", key |-> "LABEL",
                      label |-> "config-2", uuid |-> "2024-02-02-00", partuuid |-> ""],
                     [dev |-> "/dev/vda15", type |-> "vfat", key |-> "LABEL_FATBOOT",
                      label |-> "UEFI", uuid |-> "AB12-CD34", partuuid |-> "9f1c"],
                     [dev |-> "/dev/vda1", type |-> "ext4", key |-> "LABEL",
                      label |-> "cloudimg-rootfs", uuid |-> "1a2b", partuuid |-> ""]},
                    MaxNames) \ {<< >>}}
            \cup
            {[op |-> "dscheck", dslist |-> d, kernel_cmdline |-> k, product_serial |-> p,
              labels |-> l, seed |-> sd] :
                d \in {DatasourceList_default}
                       \cup {DatasourceList_from(n) :
                                n \in {"NoCloud", "NoCloud LXD", "NoCloud MAAS LXD", "LXD None"}},
                k \in {"ro quiet", "ro ds=nocloud quiet"},
                p \in {None, Some("VM-1"), Some("ds=nocloud;s=/srv/")},
                l \in {<< >>, <<"boot", "cidata">>, <<"boot", "CIDATA">>},
                sd \in {[name |-> "nocloud", kind |-> "absent", files |-> {}],
                        [name |-> "nocloud", kind |-> "dir", files |-> {"user-data"}],
                        [name |-> "nocloud", kind |-> "dir", files |-> {"meta-data"}],
                        [name |-> "nocloud-net", kind |-> "dir",
                         files |-> {"meta-data", "user-data"}]}}
            \cup
            {[op |-> "path", PATH |-> pv] :
                pv \in {None} \cup
                    {Some(join(d, ":")) :
                        d \in SeqUpTo({"/sbin", "/usr/sbin", "/bin", "/usr/bin", "/opt/bin"},
                                      MaxCmdToks)}}
            \cup
            {[op |-> "smbios", dmidecode |-> dd,
              sys_class_dmi_id |-> [kind |-> kd,
                                    files |-> [DmiDir.files EXCEPT !["product_serial"] = ps,
                                                                  !["board_name"] = bn,
                                                                  !["sys_vendor"] = sv]]] :
                dd \in {None, Some(Dmidecode)}, kd \in {"dir", "absent"},
                ps \in {DmiMissing, DmiDenied, DmiFile("VM-1\n")},
                bn \in {DmiMissing, DmiDenied, DmiFile("LXD\n")},
                sv \in {DmiMissing, DmiIoError, DmiFile("QEMU\n")}}
            \cup
            {[op |-> "write", content |-> join(ls, "\n") \o nl, mode |-> m, fs0 |-> Fs(c, None)] :
                ls \in SeqUpTo({"datasource_list: [ NoCloud, None ]", "# x", ""}, MaxCmdToks),
                nl \in {"", "\n"},
                m \in {"Report", "Search"},
                c \in {None, Some(OldCfg)}}

\* unquote applied to s between a pair of wrap characters
ApplyUnquote ==
    /\ fin.op = "unquote"
    /\ fout = None
    /\ fout' = Some([out |-> unquote(fin.wrap \o fin.s \o fin.wrap)])
    /\ UNCHANGED fin
    /\ ProcessUnchanged

\* parse_yaml_array applied to the items joined by sep, with and without the
\* enclosing brackets
ApplyParseYamlArray ==
    /\ fin.op = "yaml"
    /\ fout = None
    /\ LET x == join(fin.items, fin.sep) IN
       fout' = Some([bracketed |-> parse_yaml_array("[" \o x \o "]"),
                     bare |-> parse_yaml_array(x)])
    /\ UNCHANGED fin
    /\ ProcessUnchanged

\* collect_info from virt to fs_info, then has_fs_with_label on the result
ApplyReadLinux ==
    /\ fin.op \in {"fsinfo", "blkid"}
    /\ fout = None
    /\ LET blkid == IF fin.blkid = "missing" THEN None
                    ELSE Ran(fin.blkid = "ok", fin.export, "")
           fs_info == FSInfo_read_linux(is_container(fin.virt), blkid)
       IN  fout' = Some([fs_info |-> fs_info,
                         has |-> has_fs_with_label(fs_info.fs_labels, <<fin.query>>)])
    /\ UNCHANGED fin
    /\ ProcessUnchanged

\* dscheck_fn applied to the entries of the list in order, on a host with the
\* given facts; a panic ends the dispatch at the entry that raised it
ApplyDscheck ==
    /\ fin.op = "dscheck"
    /\ fout = None
    /\ LET h == [dev_lxd_sock |-> "absent", seed |-> fin.seed]
           i == [kernel_cmdline |-> fin.kernel_cmdline, virt |-> "kvm",
                 smbios |-> [k \in {"product_serial", "board_name"} |->
                                IF k = "product_serial" THEN fin.product_serial ELSE None],
                 fs_info |-> FSInfo_read_linux(FALSE, Ran(TRUE, BlkidExport(fin.labels), ""))]
           rs == [k \in 1..Len(fin.dslist) |-> dscheck_fn(fin.dslist[k], i, h)]
           stop == {k \in 1..Len(rs) : rs[k] = Panic}
           done == IF stop = {} THEN Len(rs)
                   ELSE (CHOOSE k \in stop : \A j \in stop : k <= j) - 1
       IN  fout' = Some([panic |-> stop # {}, results |-> SubSeq(rs, 1, done)])
    /\ UNCHANGED fin
    /\ ProcessUnchanged

\* write_result applied to the content in the mode, on the files fs0; text is
\* what the function hands to its stream
ApplyWriteResult ==
    /\ fin.op = "write"
    /\ fout = None
    /\ LET w == write_result(fin.content, fin.fs0, fin.mode) IN
       fout' = Some([panic |-> w.panic, fs |-> w.fs,
                     text |-> write_result_text(fin.content, fin.mode)])
    /\ UNCHANGED fin
    /\ ProcessUnchanged

\* ensure_sane_path in a process started with the given $PATH
ApplyEnsureSanePath ==
    /\ fin.op = "path"
    /\ fout = None
    /\ fout' = Some(ensure_sane_path(fin.PATH))
    /\ UNCHANGED fin
    /\ ProcessUnchanged

\* get_dmi_field for each key, as SMBIOS::read_from_dmi calls it
ApplyReadFromDmi ==
    /\ fin.op = "smbios"
    /\ fout = None
    /\ fout' = Some([k \in {DmiKeys[i] : i \in 1..Len(DmiKeys)} |->
                        get_dmi_field(fin.sys_class_dmi_id, k, fin.dmidecode)])
    /\ UNCHANGED fin
    /\ ProcessUnchanged

NextUtil ==
    \/ ApplyUnquote
    \/ ApplyParseYamlArray
    \/ ApplyReadLinux
    \/ ApplyDscheck
    \/ ApplyWriteResult
    \/ ApplyEnsureSanePath
    \/ ApplyReadFromDmi

SpecUtil == InitUtil /\ [][NextUtil]_vars

\* C13: for a comma-separated list of items, parse_yaml_array gives the same
\* elements with and without the enclosing brackets: the items, each trimmed
\* and unquoted.
C13_YamlBrackets ==
    (IsSome(fout) /\ fin.op = "yaml")
    => /\ Unwrap(fout).bracketed = Unwrap(fout).bare
       /\ Unwrap(fout).bare = [i \in 1..Len(fin.items) |-> unquote(fin.items[i])]

\* s is at least two characters long and starts and ends with the same quote
Wrapped(s) ==
    /\ Len(s) >= 2
    /\ Ch(s, 1) \in {TICK, QUOTE}
    /\ Ch(s, Len(s)) = Ch(s, 1)

\* C14: unquote of s between a pair of single or of double quotes is s when s
\* does not contain that quote, and unquote(s) is s, returned normally, when s
\* is not wrapped in a matching pair of quotes; for every s, the empty string
\* and the strings of one character included.
C14_UnquoteLaws ==
    (IsSome(fout) /\ fin.op = "unquote")
    => /\ (fin.wrap # "" /\ ~contains(fin.s, fin.wrap)) => Unwrap(fout).out = fin.s
       /\ (fin.wrap = "" /\ ~Wrapped(fin.s)) => Unwrap(fout).out = fin.s

\* C15: on the FSInfo read_linux builds from the labels blkid reports,
\* has_fs_with_label([L]) is true exactly when L is one of the reported
\* labels as a whole, the first one included.
C15_WholeLabel ==
    (IsSome(fout) /\ fin.op = "fsinfo" /\ fin.virt = "kvm" /\ fin.blkid = "ok")
    => (Unwrap(fout).has <=> \E i \in 1..Len(fin.labels) : fin.labels[i] = fin.query)

\* C16: when virt is one of container-other, lxc, lxc-libvirt, systemd-nspawn,
\* docker, rkt, jail, fs_labels and iso9660_devs are both unavailable:container
\* and blkid is not started.
C16_ContainerFsInfo ==
    (IsSome(fout) /\ fin.op = "fsinfo"
        /\ fin.virt \in {"container-other", "lxc", "lxc-libvirt", "systemd-nspawn",
                         "docker", "rkt", "jail"})
    => LET f == Unwrap(fout).fs_info IN
       /\ ~f.panic
       /\ ~f.ran
       /\ f.fs_labels = "unavailable:container"
       /\ f.iso9660_devs = "unavailable:container"

C16_Witness ==
    /\ IsSome(fout) /\ fin.op = "fsinfo"
    /\ fin.virt = "jail" /\ fin.blkid = "missing"
    /\ Unwrap(fout).fs_info.fs_labels = "unavailable:container"
    /\ ~Unwrap(fout).fs_info.ran

\* C17: the check of NoCloud answers Found exactly when the kernel command line
\* or the product serial contains ds=nocloud, or a filesystem is labelled
\* cidata or CIDATA, or a seed directory nocloud or nocloud-net holds a
\* meta-data file; otherwise it answers NotFound
C17_NoCloudFound ==
    (IsSome(fout) /\ fin.op = "dscheck" /\ fin.dslist[1].tag = "NoCloud")
    => LET r == Unwrap(fout).results[1] IN
       /\ r \in {"Found", "NotFound"}
       /\ r = "Found" <=>
            \/ contains(fin.kernel_cmdline, "ds=nocloud")
            \/ (IsSome(fin.product_serial)
                    /\ contains(Unwrap(fin.product_serial), "ds=nocloud"))
            \/ \E k \in 1..Len(fin.labels) : fin.labels[k] \in {"cidata", "CIDATA"}
            \/ (fin.seed.name \in {"nocloud", "nocloud-net"}
                    /\ check_seed_dir(fin.seed, <<"meta-data">>))

\* C18: the dispatch of a list never aborts on a name without a check: every
\* entry that has a check is reached and answered, in the order of the list
C18_UnknownSkipped ==
    (IsSome(fout) /\ fin.op = "dscheck")
    => LET known == {k \in 1..Len(fin.dslist) : fin.dslist[k].tag # "Unknown"} IN
       /\ ~Unwrap(fout).panic
       /\ \A k \in known : k <= Len(Unwrap(fout).results)

\* the output of write_result as documented: in Report mode `di_report:` and
\* the non-empty lines behind two spaces, otherwise the lines as they are
DocOutput(content, mode) ==
    LET ls == lines(content)
        pre(l) == IF mode = "Report" /\ l # "" THEN "  " ELSE ""
    IN  (IF mode = "Report" THEN "di_report:\n" ELSE "")
        \o join([k \in 1..Len(ls) |-> pre(ls[k]) \o ls[k] \o "\n"], "")

\* C19: write_result leaves run_ci_cfg holding the content in the documented
\* shape: in Report mode `di_report:` first and every non-empty line behind
\* exactly two spaces, empty lines without prefix; in another mode the lines
\* as they are
C19_OutputShape ==
    (IsSome(fout) /\ fin.op = "write")
    => /\ ~Unwrap(fout).panic
       /\ Unwrap(fout).text = DocOutput(fin.content, fin.mode)
       /\ Unwrap(fout).fs.run_ci_cfg = Some(DocOutput(fin.content, fin.mode))

\* C20: a run in mode Search or Report without dsname, on a host where
\* var_lib_cloud/instance/manual-clean exists, ends with exit code 0, has made
\* no check of a datasource, and has written to run_ci_cfg a fragment of
\* comments only, without a datasource_list line
C20_ManualClean ==
    (Exited /\ Resolved /\ Mode \in {"Search", "Report"}
        /\ ~IsSome(Unwrap(info).config.dsname) /\ is_manual_clean_and_exiting(env))
    => /\ exit_code = Some(EXIT_OK)
       /\ probes = << >>
       /\ "run_ci_cfg" \in fs.written
       /\ IsSome(fs.run_ci_cfg)
       /\ contains(Unwrap(fs.run_ci_cfg), "# manual_cache_clean.")
       /\ ~contains(Unwrap(fs.run_ci_cfg), "datasource_list")

\* C21: a run with DI_MAIN=print_info ends with exit code 0 on every host, the
\* resolved mode Disabled included, and leaves run_ci_cfg and run_di_result as
\* they were; a run with a value of DI_MAIN other than main and print_info is
\* rejected: it ends with exit code 1 without collecting the facts
C21_PrintInfoOnly ==
    /\ (Exited /\ env.DI_MAIN = Some("print_info"))
        => (exit_code = Some(EXIT_OK) /\ fs = env.fs0)
    /\ (Exited /\ IsSome(env.DI_MAIN) /\ Unwrap(env.DI_MAIN) \notin {"main", "print_info"})
        => (exit_code = Some(1) /\ ~Resolved)

\* how many of the directories of a $PATH value are d
Occurrences(pathv, d) ==
    LET ds == split(pathv, ":") IN Cardinality({k \in 1..Len(ds) : ds[k] = d})

\* C22: after ensure_sane_path, whatever $PATH was, the $PATH of the process
\* holds each of /sbin, /usr/sbin, /bin and /usr/bin, and a directory that was
\* in $PATH already, in any position, has not been added again
C22_SanePath ==
    (IsSome(fout) /\ fin.op = "path" /\ IsSome(fin.PATH))
    => /\ ~Unwrap(fout).panic
       /\ \A d \in {"/sbin", "/usr/sbin", "/bin", "/usr/bin"} :
            LET before == Occurrences(Unwrap(fin.PATH), d)
                after == Occurrences(Unwrap(Unwrap(fout).PATH), d)
            IN  after >= 1 /\ (before >= 1 => after = before)

\* C23: the collection of the facts never aborts, whichever of its inputs
\* fail: every run that reaches _main gets its snapshot, and in it the
\* product name of PID 1 is `unavailable` when proc_1_environ cannot be read
\* or has no product_name entry
C23_BestEffort ==
    (Exited /\ RunsMain /\ ~debug_panics(env))
    => /\ Resolved
       /\ (~is_file(env.proc_1_environ) \/ env.proc_1_environ.content = "container" \o NUL)
            => Unwrap(info).pid1_prod_name = UNAVAILABLE

\* C24: the kernel command line of the snapshot is, on a container host, the
\* content of proc_1_cmdline with NULs replaced by spaces, and
\* `unavailable:container` exactly when that is empty; on another host it is
\* the content of proc_cmdline when that is a file, else `unavailable:no-cmdline`
C24_KernelCmdline ==
    Resolved
    => Unwrap(info).kernel_cmdline =
        IF is_container(Unwrap(info).virt) THEN
            LET cmdline == replace(env.proc_1_cmdline.content, NUL, " ") IN
            IF cmdline # "" THEN cmdline ELSE "unavailable:container"
        ELSE IF is_file(env.proc_cmdline) THEN env.proc_cmdline.content
        ELSE "unavailable:no-cmdline"

\* C25: for every sequence of device groups printed by blkid, iso9660_devs is
\* `<devname>=<label>,` for exactly the groups of TYPE iso9660, in order and
\* with the label of the group; fs_labels is `<label>,` for every LABEL= or
\* LABEL_FATBOOT= line; fs_uuids is `<uuid>,` for every UUID= line and no other
C25_BlkidGroups ==
    (IsSome(fout) /\ fin.op = "blkid")
    => LET f == Unwrap(fout).fs_info
           gs == fin.groups
           iso == SelectSeq(gs, LAMBDA g : g.type = "iso9660")
       IN  /\ ~f.panic
           /\ f.iso9660_devs =
                join([k \in 1..Len(iso) |-> iso[k].dev \o "=" \o iso[k].label \o ","], "")
           /\ f.fs_labels = join([k \in 1..Len(gs) |-> gs[k].label \o ","], "")
           /\ f.fs_uuids = Some(join([k \in 1..Len(gs) |-> gs[k].uuid \o ","], ""))

\* C26: etc_ci_cfg_paths returns etc_ci_cfg first and then the direct entries
\* of etc_ci_cfg_d whose name ends in `.cfg`, whenever etc_ci_cfg_d is a
\* directory; when it is not a directory it returns etc_ci_cfg alone and does
\* not fail; no entry of another name is returned
C26_CfgPaths ==
    (IsSome(fout) /\ fin.op = "list" /\ fin.src = "files")
    => LET r == Unwrap(fout).cfg_paths
           d == fin.etc_ci_cfg_d
           dropins == IF d.kind = "dir"
                      THEN SelectSeq(d.entries, LAMBDA e : ends_with(e.name, ".cfg"))
                      ELSE << >>
       IN  /\ ~r.panic
           /\ Len(r.paths) = 1 + Len(dropins)
           /\ r.paths[1] = fin.etc_ci_cfg
           /\ {r.paths[k] : k \in 2..Len(r.paths)} = {dropins[k] : k \in 1..Len(dropins)}

\* C27: with DI_DSNAME unset, the datasource_list value used is that of the
\* last line with key datasource_list in the last scanned regular file that has
\* one, the line cut at its first `#` and trimmed; without such a line the list
\* is the built-in default of 27 names in its documented order
C27_LastLineWins ==
    (IsSome(fout) /\ fin.op = "list" /\ fin.DI_DSNAME = None)
    => LET r == Unwrap(fout).read
           ps == Unwrap(fout).cfg_paths.paths
           cut(l) == trim(IF IsSome(split_once(l, "#")) THEN Unwrap(split_once(l, "#"))[1]
                          ELSE l)
           has(l) == IsSome(split_once(cut(l), ":"))
                     /\ trim(Unwrap(split_once(cut(l), ":"))[1]) = "datasource_list"
           at(m) == lines(ps[m[1]].content)[m[2]]
           hits == {m \in UNION {{<<a, b>> : b \in 1..Len(lines(ps[a].content))} :
                                   a \in {a \in 1..Len(ps) : is_file(ps[a])}} : has(at(m))}
           last == CHOOSE m \in hits : \A n \in hits :
                        n[1] < m[1] \/ (n[1] = m[1] /\ n[2] <= m[2])
       IN  /\ ~r.panic
           /\ hits # {}
                => Unwrap(fout).value = Some(trim(Unwrap(split_once(cut(at(last)), ":"))[2]))
           /\ hits = {}
                => /\ Unwrap(fout).value = None
                   /\ Len(r.list) = 27
                   /\ [k \in 1..Len(r.list) |-> NameOf(r.list[k])]
                        = split_whitespace(
                            "MAAS ConfigDrive NoCloud AltCloud Azure Bigstep CloudSigma "
                            \o "CloudStack DigitalOcean Vultr AliYun Ec2 GCE OpenNebula "
                            \o "OpenStack OVF SmartOS Scaleway Hetzner IBMCloud Oracle "
                            \o "Exoscale RbxCloud UpCloud VMware LXD NWCS")

\* C28: in di_config, the value of a `key: value` line is what follows the
\* colon with the text from `#` on removed, trimmed and without its matching
\* surrounding quotes; a line without `:` or with another key changes nothing;
\* of several lines with the same key the last one counts
C28_DiConfigLines ==
    (IsSome(fout) /\ fin.op = "file")
    => LET c == Unwrap(fout)
           cut(l) == IF IsSome(split_once(l, "#")) THEN Unwrap(split_once(l, "#"))[1] ELSE l
           kv(l) == split_once(cut(l), ":")
           bare(v) == IF Len(v) >= 2 /\ Ch(v, 1) = Ch(v, Len(v)) /\ Ch(v, 1) \in {TICK, QUOTE}
                      THEN SubSeq(v, 2, Len(v) - 1) ELSE v
           value(key) ==
                LET hits == {k \in 1..Len(fin.flines) :
                                IsSome(kv(fin.flines[k]))
                                /\ trim(Unwrap(kv(fin.flines[k]))[1]) = key}
                IN  IF hits = {} THEN None
                    ELSE LET k == CHOOSE k \in hits : \A j \in hits : j <= k
                         IN  Some(bare(trim(Unwrap(kv(fin.flines[k]))[2])))
           policy == value("policy")
       IN  /\ ~c.panic
           /\ c.dsname = value("datasource")
           /\ c.mode = IF policy = Some("disabled") THEN "Disabled"
                       ELSE IF policy = Some("enabled") THEN "Enabled"
                       ELSE IF policy = Some("report") THEN "Report"
                       ELSE "Search"

\* C29: while sys_class_dmi_id is a directory no dmidecode process is started,
\* and a field whose file is missing or unreadable for lack of permission is
\* None; dmidecode is started only when the directory is absent, and never for
\* board_name, which is then None
C29_NoDmidecodeFallback ==
    (IsSome(fout) /\ fin.op = "smbios")
    => \A k \in DOMAIN Unwrap(fout) :
        LET r == Unwrap(fout)[k]
            d == fin.sys_class_dmi_id
        IN  /\ d.kind = "dir" => ~r.ran
            /\ (d.kind = "dir" /\ d.files[k].state \in {"missing", "denied"})
                    => (~r.panic /\ r.value = None)
            /\ r.ran => (d.kind = "absent" /\ k # "board_name")
            /\ (d.kind = "absent" /\ k = "board_name") => (~r.panic /\ r.value = None)

C29_Witness ==
    /\ IsSome(fout) /\ fin.op = "smbios"
    /\ fin.sys_class_dmi_id.kind = "dir"
    /\ IsSome(fin.dmidecode)
    /\ fin.sys_class_dmi_id.files["product_serial"].state = "denied"
    /\ fin.sys_class_dmi_id.files["board_name"].state = "missing"
    /\ Unwrap(fout)["product_serial"].value = None
    /\ Unwrap(fout)["board_name"].value = None
    /\ ~Unwrap(fout)["board_name"].ran

\* C30: a list of names read from DI_DSNAME, from a datasource_list value or
\* from the built-in default, rendered with as_old_list and to_old_str, gives
\* for each name the name of the provider as written in `datasource_list:`:
\* the canonical spelling of a known provider whatever the case of the input,
\* the name itself otherwise; same length, same order
C30_NameRoundTrip ==
    (IsSome(fout) /\ fin.op = "list"
        /\ (fin.src \in {"env", "cfg"}
            \/ (fin.src = "default" /\ Unwrap(fout).value = None
                    /\ ~Unwrap(fout).read.panic)))
    => LET names == IF fin.src = "default" THEN split_whitespace(DI_DSLIST_DEFAULT)
                    ELSE fin.names
           canon(n) == IF to_lowercase(n) = "nocloud" THEN "NoCloud"
                       ELSE IF to_lowercase(n) = "lxd" THEN "LXD"
                       ELSE n
           expected == [k \in 1..Len(names) |-> canon(names[k])]
       IN  /\ Unwrap(fout).old_list = expected
           /\ Unwrap(fout).old_str = join(expected, " ")

====
